---- MODULE Spec2Model ----
(***************************************************************************)
(* A model of rofi-unicode: configuration resolution (src/src/config.rs),  *)
(* arena construction and the navigation callbacks (src/src/lib.rs).       *)
(*                                                                         *)
(* Strings are sequences of tokens, so that concatenation, markup          *)
(* stripping and splitting are computed and not assumed.  Arena indices    *)
(* are 0-based as in the Rust source; ListAt/ItemAt translate to the       *)
(* 1-based sequences of TLA+.                                              *)
(***************************************************************************)
EXTENDS Integers, Sequences, FiniteSets, TLC

VARIABLES
    env,          \* the process environment read by Paths::from_env
    fs,           \* the file system read by fs::read_to_string
    phase,        \* "start" | "ready" | "failed" | "overflow" | "exited"
    lists,        \* Unicode::lists
    active_list,  \* Unicode::active_list
    input,        \* the host's search-input text handed to react
    event,        \* the event of the last react call
    action,       \* the rofi_mode::Action the last react call returned
    copy_result,  \* what xclip did in the last react call, "none" if not run
    error,        \* the anyhow error chain init reported (outermost first)
    clipboard     \* the text of every clipboard_copy call so far

vars == <<env, fs, phase, lists, active_list, input, event, action, copy_result,
          error, clipboard>>

----------------------------------------------------------------------------
(* Bounds of the model *)

\* Longest root document (number of keys of the root node).
MaxWidth == 2
\* Deepest recursion of resolve the stack affords before it overflows.
MaxDepth == 5
\* Most clipboard_copy calls recorded in one run.
MaxCopies == 2
\* Longest root document tried on the hosts other than the default one.
ProbeWidth == 1

----------------------------------------------------------------------------
(* Option<T> *)

None == [tag |-> "None"]
Some(v) == [tag |-> "Some", val |-> v]

(* Strings as token sequences *)

RECURSIVE Concat(_)
\* Iterator<Item = &str>::collect::<String>()
Concat(parts) ==
    IF parts = <<>> THEN <<>> ELSE Head(parts) \o Concat(Tail(parts))

RECURSIVE Rev(_)
\* Iterator::rev
Rev(s) ==
    IF s = <<>> THEN <<>> ELSE Append(Rev(Tail(s)), Head(s))

----------------------------------------------------------------------------
(* pango::parse_markup, as called by resolve: tags are stripped, entities  *)
(* decoded, each closed <b> span yields one attribute; unbalanced tags and *)
(* bare '<' or '&' are errors.                                             *)

RECURSIVE ScanMarkup(_, _, _, _, _)
ScanMarkup(s, i, open, plain, attrs) ==
    IF i > Len(s)
    THEN IF open = <<>>
         THEN [ok |-> TRUE, name |-> plain, attributes |-> attrs]
         ELSE [ok |-> FALSE, name |-> <<>>, attributes |-> <<>>]
    ELSE LET tok == s[i] IN
         CASE tok = "<b>" ->
                ScanMarkup(s, i + 1, Append(open, Len(plain)), plain, attrs)
           [] tok = "</b>" ->
                IF open = <<>>
                THEN [ok |-> FALSE, name |-> <<>>, attributes |-> <<>>]
                ELSE ScanMarkup(s, i + 1, SubSeq(open, 1, Len(open) - 1), plain,
                                Append(attrs, [start |-> open[Len(open)],
                                               end |-> Len(plain)]))
           [] tok = "&amp;" ->
                ScanMarkup(s, i + 1, open, Append(plain, "&"), attrs)
           [] tok \in {"<", "&"} ->
                [ok |-> FALSE, name |-> <<>>, attributes |-> <<>>]
           [] OTHER ->
                ScanMarkup(s, i + 1, open, Append(plain, tok), attrs)

parse_markup(markup) == ScanMarkup(markup, 1, <<>>, <<>>, <<>>)

----------------------------------------------------------------------------
(* anyhow errors: a chain of layers, outermost context first *)

Layer(msg, arg) == [msg |-> msg, arg |-> arg]
Ok(v) == [ok |-> TRUE, val |-> v, err |-> <<>>]
Err(chain) == [ok |-> FALSE, val |-> <<>>, err |-> chain]
\* Result::with_context
with_context(r, msg, arg) ==
    IF r.ok THEN r ELSE Err(<<Layer(msg, arg)>> \o r.err)

----------------------------------------------------------------------------
(* RON documents as ron::from_str sees them: strings, lists of strings,    *)
(* maps with their keys in source order, and the Config(...) struct.       *)

Str(s) == [tag |-> "Str", str |-> s]
Strs(ss) == [tag |-> "Seq", seq |-> ss]
Map(entries) == [tag |-> "Map", map |-> entries]
Struct(fields) == [tag |-> "Struct", fields |-> fields]
Entry(k, v) == [key |-> k, val |-> v]

\* config.rs enum UnresolvedContent / config.rs enum Content
Text(t) == [tag |-> "Text", text |-> t]
Items(items) == [tag |-> "Items", items |-> items]

RECURSIVE visit_map(_, _, _, _)
\* visit_map putting the references of a later extends key in front of
\* those of an earlier one
visit_map_extends_prepended(map, k, extends, direct) ==
    IF k > Len(map)
    THEN Ok([extends |-> extends, direct |-> direct])
    ELSE LET key == map[k].key
             v == map[k].val
         IN  IF key = <<"extends">>
             THEN IF v.tag = "Seq"
                  THEN visit_map(map, k + 1, v.seq \o extends, direct)
                  ELSE Err(<<Layer("ron: expected a sequence of strings", key)>>)
             ELSE CASE v.tag = "Str" ->
                         visit_map(map, k + 1, extends,
                             Append(direct, [name |-> key, content |-> Text(v.str)]))
                    [] v.tag = "Map" ->
                         LET inner == visit_map(v.map, 1, <<>>, <<>>) IN
                         IF inner.ok
                         THEN visit_map(map, k + 1, extends,
                                  Append(direct, [name |-> key,
                                                  content |-> Items(inner.val)]))
                         ELSE inner
                    [] OTHER ->
                         Err(<<Layer("ron: expected a UTF-8 string or map of items", key)>>)

\* <UnresolvedItems as Deserialize>::Visitor::visit_map, entry k onwards
visit_map(map, k, extends, direct) ==
    IF k > Len(map)
    THEN Ok([extends |-> extends, direct |-> direct])
    ELSE LET key == map[k].key
             v == map[k].val
         IN  IF key = <<"extends">>
             THEN IF v.tag = "Seq"
                  THEN visit_map(map, k + 1, extends \o v.seq, direct)
                  ELSE Err(<<Layer("ron: expected a sequence of strings", key)>>)
             ELSE CASE v.tag = "Str" ->
                         visit_map(map, k + 1, extends,
                             Append(direct, [name |-> key, content |-> Text(v.str)]))
                    [] v.tag = "Map" ->
                         LET inner == visit_map(v.map, 1, <<>>, <<>>) IN
                         IF inner.ok
                         THEN visit_map(map, k + 1, extends,
                                  Append(direct, [name |-> key,
                                                  content |-> Items(inner.val)]))
                         ELSE inner
                    [] OTHER ->
                         Err(<<Layer("ron: expected a UTF-8 string or map of items", key)>>)

\* ron::from_str::<UnresolvedItems>
from_str_UnresolvedItems(text) ==
    IF text.parses /\ text.doc.tag = "Map"
    THEN visit_map(text.doc.map, 1, <<>>, <<>>)
    ELSE Err(<<Layer("ron: expected a map of key names to values", <<>>)>>)

\* ron::from_str::<Base>, #[serde(rename = "Config", deny_unknown_fields)]
from_str_Base(text) ==
    IF ~text.parses \/ text.doc.tag # "Struct"
    THEN Err(<<Layer("ron: expected struct Config", <<>>)>>)
    ELSE LET fields == text.doc.fields IN
         IF \E i \in 1..Len(fields) : fields[i].key # <<"root">>
         THEN Err(<<Layer("ron: unknown field", <<>>)>>)
         ELSE IF Len(fields) = 0
         THEN Err(<<Layer("ron: missing field root", <<>>)>>)
         ELSE IF Len(fields) > 1
         THEN Err(<<Layer("ron: duplicate field root", <<>>)>>)
         ELSE IF fields[1].val.tag # "Map"
         THEN Err(<<Layer("ron: expected a map of key names to values", <<>>)>>)
         ELSE LET root == visit_map(fields[1].val.map, 1, <<>>, <<>>) IN
              IF root.ok THEN Ok([root |-> root.val]) ELSE root

----------------------------------------------------------------------------
(* Paths: a path is its sequence of components, "/" first when absolute *)

\* Path::is_absolute
is_absolute(path) == path # <<>> /\ Head(path) = "/"
\* Path::join / PathBuf::push
join(base, path) == IF is_absolute(path) THEN path ELSE base \o path

RECURSIVE split(_, _, _)
\* <[u8]>::split(|&byte| byte == b':'), from byte k on, cur the piece so far
split(bytes, k, cur) ==
    IF k > Len(bytes) THEN <<cur>>
    ELSE IF bytes[k] = ":" THEN <<cur>> \o split(bytes, k + 1, <<>>)
    ELSE split(bytes, k + 1, Append(cur, bytes[k]))

\* Paths::from_env
from_env(e) ==
    LET user_config ==
            IF e.XDG_CONFIG_HOME.tag = "Some" THEN Some(e.XDG_CONFIG_HOME.val)
            ELSE IF e.HOME.tag = "Some" THEN Some(join(e.HOME.val, <<".config">>))
            ELSE None
        config_dirs ==
            split(IF e.XDG_CONFIG_DIRS.tag = "Some" THEN e.XDG_CONFIG_DIRS.val
                  ELSE <<"/", "etc", "xdg">>, 1, <<>>)
    IN  IF user_config.tag = "None"
        THEN Err(<<Layer("$HOME environment variable is not set", <<>>)>>)
        ELSE LET dirs == <<user_config.val>> \o config_dirs IN
             Ok([bases |-> [i \in 1..Len(dirs) |-> join(dirs[i], <<"rofi-unicode">>)]])

\* Paths::config_home
config_home(paths) == paths.bases[1]

\* std::fs::read_to_string on the modelled file system f
fs_read_to_string(f, path) ==
    IF path \notin DOMAIN f THEN Err(<<Layer("io: NotFound", <<>>)>>)
    ELSE IF f[path].kind = "Denied" THEN Err(<<Layer("io: PermissionDenied", <<>>)>>)
    ELSE Ok(f[path].text)

RECURSIVE read_in_bases(_, _, _, _)
\* the loop of read_to_string whose final error carries the last path it
\* tried instead of the reference
read_in_bases_names_last_candidate(f, paths, path, k) ==
    IF k > Len(paths.bases)
    THEN Err(<<Layer("could not resolve path",
                     join(paths.bases[Len(paths.bases)], path))>>)
    ELSE LET r == fs_read_to_string(f, join(paths.bases[k], path)) IN
         IF r.ok THEN r
         ELSE IF r.err[1].msg = "io: NotFound"
         THEN read_in_bases(f, paths, path, k + 1)
         ELSE with_context(r, "failed to read file", path)

\* the loop of read_to_string moving on to the next base on every failure
read_in_bases_any_failure_moves_on(f, paths, path, k) ==
    IF k > Len(paths.bases)
    THEN Err(<<Layer("could not resolve path", path)>>)
    ELSE LET r == fs_read_to_string(f, join(paths.bases[k], path)) IN
         IF r.ok THEN r
         ELSE read_in_bases(f, paths, path, k + 1)

\* the loop of read_to_string walking the bases from the last to the first
read_in_bases_last_first(f, paths, path, k) ==
    IF k > Len(paths.bases)
    THEN Err(<<Layer("could not resolve path", path)>>)
    ELSE LET r == fs_read_to_string(f,
                      join(paths.bases[Len(paths.bases) + 1 - k], path)) IN
         IF r.ok THEN r
         ELSE IF r.err[1].msg = "io: NotFound"
         THEN read_in_bases(f, paths, path, k + 1)
         ELSE with_context(r, "failed to read file", path)

\* the for loop of Paths::read_to_string, from base k on
read_in_bases(f, paths, path, k) ==
    IF k > Len(paths.bases)
    THEN Err(<<Layer("could not resolve path", path)>>)
    ELSE LET r == fs_read_to_string(f, join(paths.bases[k], path)) IN
         IF r.ok THEN r
         ELSE IF r.err[1].msg = "io: NotFound"
         THEN read_in_bases(f, paths, path, k + 1)
         ELSE with_context(r, "failed to read file", path)

\* Paths::read_to_string
read_to_string(f, paths, path) ==
    IF is_absolute(path)
    THEN with_context(fs_read_to_string(f, path), "failed to read file", path)
    ELSE read_in_bases(f, paths, path, 1)

----------------------------------------------------------------------------
(* config.rs: resolve and read *)

\* config.rs struct Item
ConfigItem(name, attrs, markup, content) ==
    [name |-> name, name_attributes |-> attrs, name_markup |-> markup,
     content |-> content]

\* the recursion of resolve has outgrown the stack: the process is gone
StackOverflow == Err(<<Layer("stack overflow", <<>>)>>)
Overflowed(r) == ~r.ok /\ r.err[Len(r.err)].msg = "stack overflow"

RECURSIVE resolve(_, _, _, _, _)
RECURSIVE resolve_direct(_, _, _, _, _, _)
RECURSIVE resolve_extends(_, _, _, _, _, _)

\* a tag or a bare special character of a name
IsTag(tok) == tok \in {"<b>", "</b>", "<", "&"}

\* the direct loop keeping an item whose name is not valid markup, under the
\* name with its tags taken out
resolve_direct_keeps_stripped(f, direct, k, resolved, paths, depth) ==
    IF k > Len(direct) THEN Ok(resolved)
    ELSE LET unresolved_item == direct[k]
             content ==
                 IF unresolved_item.content.tag = "Text"
                 THEN Ok(Text(unresolved_item.content.text))
                 ELSE LET inner == resolve(f, unresolved_item.content.items, <<>>,
                                           paths, depth + 1)
                      IN  IF inner.ok THEN Ok(Items(inner.val)) ELSE inner
         IN  IF ~content.ok THEN content
             ELSE LET m == parse_markup(unresolved_item.name)
                      kept == IF m.ok THEN m
                              ELSE [name |-> SelectSeq(unresolved_item.name,
                                                       LAMBDA t : ~IsTag(t)),
                                    attributes |-> <<>>]
                  IN  resolve_direct(f, direct, k + 1,
                          Append(resolved,
                                 ConfigItem(kept.name, kept.attributes,
                                            unresolved_item.name, content.val)),
                          paths, depth)

\* the direct loop parsing the name of an item before it resolves the
\* item's nested content
resolve_direct_markup_first(f, direct, k, resolved, paths, depth) ==
    IF k > Len(direct) THEN Ok(resolved)
    ELSE LET unresolved_item == direct[k]
             m == parse_markup(unresolved_item.name)
             content ==
                 IF unresolved_item.content.tag = "Text"
                 THEN Ok(Text(unresolved_item.content.text))
                 ELSE LET inner == resolve(f, unresolved_item.content.items, <<>>,
                                           paths, depth + 1)
                      IN  IF inner.ok THEN Ok(Items(inner.val)) ELSE inner
         IN  IF ~m.ok
             THEN Err(<<Layer("item name contains invalid markup",
                              unresolved_item.name),
                        Layer("pango: markup error", <<>>)>>)
             ELSE IF ~content.ok THEN content
             ELSE resolve_direct(f, direct, k + 1,
                      Append(resolved,
                             ConfigItem(m.name, m.attributes,
                                        unresolved_item.name, content.val)),
                      paths, depth)

\* the loop `for unresolved_item in unresolved.direct`, item k onwards
resolve_direct(f, direct, k, resolved, paths, depth) ==
    IF k > Len(direct) THEN Ok(resolved)
    ELSE LET unresolved_item == direct[k]
             content ==
                 IF unresolved_item.content.tag = "Text"
                 THEN Ok(Text(unresolved_item.content.text))
                 ELSE LET inner == resolve(f, unresolved_item.content.items, <<>>,
                                           paths, depth + 1)
                      IN  IF inner.ok THEN Ok(Items(inner.val)) ELSE inner
         IN  IF ~content.ok THEN content
             ELSE LET m == parse_markup(unresolved_item.name) IN
                  IF ~m.ok
                  THEN Err(<<Layer("item name contains invalid markup",
                                   unresolved_item.name),
                             Layer("pango: markup error", <<>>)>>)
                  ELSE resolve_direct(f, direct, k + 1,
                           Append(resolved,
                                  ConfigItem(m.name, m.attributes,
                                             unresolved_item.name, content.val)),
                           paths, depth)

\* the extends loop going on to the next reference when a fragment cannot
\* be read
resolve_extends_skips_unreadable(f, extends, k, resolved, paths, depth) ==
    IF k > Len(extends) THEN Ok(resolved)
    ELSE LET include_path == extends[k]
             include_ron == read_to_string(f, paths, include_path)
         IN  IF ~include_ron.ok
             THEN resolve_extends(f, extends, k + 1, resolved, paths, depth)
             ELSE LET include == with_context(
                                     from_str_UnresolvedItems(include_ron.val),
                                     "failed to deserialize included file",
                                     include_path)
                  IN  IF ~include.ok THEN include
                      ELSE LET r == resolve(f, include.val, resolved, paths, depth + 1)
                           IN  IF ~r.ok THEN r
                               ELSE resolve_extends(f, extends, k + 1, r.val,
                                                    paths, depth)

\* the extends loop adding the including reference to an error that comes
\* out of the fragment
resolve_extends_names_chain(f, extends, k, resolved, paths, depth) ==
    IF k > Len(extends) THEN Ok(resolved)
    ELSE LET include_path == extends[k]
             include_ron == read_to_string(f, paths, include_path)
         IN  IF ~include_ron.ok THEN include_ron
             ELSE LET include == with_context(
                                     from_str_UnresolvedItems(include_ron.val),
                                     "failed to deserialize included file",
                                     include_path)
                  IN  IF ~include.ok THEN include
                      ELSE LET r == resolve(f, include.val, resolved, paths, depth + 1)
                           IN  IF Overflowed(r) THEN r
                               ELSE IF ~r.ok
                               THEN with_context(r, "in included file", include_path)
                               ELSE resolve_extends(f, extends, k + 1, r.val,
                                                    paths, depth)

\* the loop `for include_path in unresolved.extends`, reference k onwards
resolve_extends(f, extends, k, resolved, paths, depth) ==
    IF k > Len(extends) THEN Ok(resolved)
    ELSE LET include_path == extends[k]
             include_ron == read_to_string(f, paths, include_path)
         IN  IF ~include_ron.ok THEN include_ron
             ELSE LET include == with_context(
                                     from_str_UnresolvedItems(include_ron.val),
                                     "failed to deserialize included file",
                                     include_path)
                  IN  IF ~include.ok THEN include
                      ELSE LET r == resolve(f, include.val, resolved, paths, depth + 1)
                           IN  IF ~r.ok THEN r
                               ELSE resolve_extends(f, extends, k + 1, r.val,
                                                    paths, depth)

\* resolve with the two loops swapped: included fragments before direct items
resolve_includes_first(f, unresolved, resolved, paths, depth) ==
    IF depth > MaxDepth THEN StackOverflow
    ELSE LET e == resolve_extends(f, unresolved.extends, 1, resolved, paths, depth) IN
         IF ~e.ok THEN e
         ELSE resolve_direct(f, unresolved.direct, 1, e.val, paths, depth)

\* resolve giving up with an error when the includes nest too deep
resolve_depth_capped(f, unresolved, resolved, paths, depth) ==
    IF depth > MaxDepth THEN Err(<<Layer("includes nested too deep", <<>>)>>)
    ELSE LET d == resolve_direct(f, unresolved.direct, 1, resolved, paths, depth) IN
         IF ~d.ok THEN d
         ELSE resolve_extends(f, unresolved.extends, 1, d.val, paths, depth)

\* config.rs fn resolve; depth is the number of resolve frames below this one
resolve(f, unresolved, resolved, paths, depth) ==
    IF depth > MaxDepth THEN StackOverflow
    ELSE LET d == resolve_direct(f, unresolved.direct, 1, resolved, paths, depth) IN
         IF ~d.ok THEN d
         ELSE resolve_extends(f, unresolved.extends, 1, d.val, paths, depth)

\* read looking config.ron up through the bases as a fragment is
read_searches_bases(e, f) ==
    LET paths == from_env(e) IN
    IF ~paths.ok THEN paths
    ELSE LET config_ron_path == join(config_home(paths.val), <<"config.ron">>)
             config_ron == read_to_string(f, paths.val, <<"config.ron">>)
         IN  IF ~config_ron.ok THEN config_ron
             ELSE LET base == with_context(from_str_Base(config_ron.val),
                                           "failed to parse file", config_ron_path)
                  IN  IF ~base.ok THEN base
                      ELSE LET root == resolve(f, base.val.root, <<>>, paths.val, 0)
                           IN  IF ~root.ok THEN root
                               ELSE Ok([root |-> root.val])

\* config.rs fn read
read(e, f) ==
    LET paths == from_env(e) IN
    IF ~paths.ok THEN paths
    ELSE LET config_ron_path == join(config_home(paths.val), <<"config.ron">>)
             config_ron == with_context(fs_read_to_string(f, config_ron_path),
                                        "failed to read file", config_ron_path)
         IN  IF ~config_ron.ok THEN config_ron
             ELSE LET base == with_context(from_str_Base(config_ron.val),
                                           "failed to parse file", config_ron_path)
                  IN  IF ~base.ok THEN base
                      ELSE LET root == resolve(f, base.val.root, <<>>, paths.val, 0)
                           IN  IF ~root.ok THEN root
                               ELSE Ok([root |-> root.val])

----------------------------------------------------------------------------
(* lib.rs: the arena *)

\* lib.rs enum Content
List(index) == [tag |-> "List", list |-> index]
\* lib.rs struct ItemIndex
ItemIndex(list, index) == [list |-> list, index |-> index]

\* Unicode::lists[i], 0-based
ListAt(ls, i) == ls[i + 1]
\* List::items[i], 0-based
ItemAt(ls, l, i) == ls[l + 1].items[i + 1]

RECURSIVE register_items(_, _, _)
RECURSIVE map_items(_, _, _, _, _)

\* map_items handing lists.len() to the nested call instead of list_index
map_items_own_index(items, k, ls, list_index, out) ==
    IF k > Len(items) THEN [lists |-> ls, items |-> out]
    ELSE LET config_item == items[k]
             index == k - 1
         IN  IF config_item.content.tag = "Text"
             THEN map_items(items, k + 1, ls, list_index,
                      Append(out, [name |-> config_item.name,
                                   name_attributes |-> config_item.name_attributes,
                                   name_markup |-> config_item.name_markup,
                                   content |-> Text(config_item.content.text)]))
             ELSE LET r == register_items(config_item.content.items, ls,
                                          Some(ItemIndex(Len(ls), index)))
                  IN  map_items(items, k + 1, r.lists, list_index,
                          Append(out, [name |-> config_item.name,
                                       name_attributes |-> config_item.name_attributes,
                                       name_markup |-> config_item.name_markup,
                                       content |-> List(r.list_index)]))

\* map_items handing None to the nested call: no back-reference is recorded
map_items_no_back_reference(items, k, ls, list_index, out) ==
    IF k > Len(items) THEN [lists |-> ls, items |-> out]
    ELSE LET config_item == items[k]
         IN  IF config_item.content.tag = "Text"
             THEN map_items(items, k + 1, ls, list_index,
                      Append(out, [name |-> config_item.name,
                                   name_attributes |-> config_item.name_attributes,
                                   name_markup |-> config_item.name_markup,
                                   content |-> Text(config_item.content.text)]))
             ELSE LET r == register_items(config_item.content.items, ls, None)
                  IN  map_items(items, k + 1, r.lists, list_index,
                          Append(out, [name |-> config_item.name,
                                       name_attributes |-> config_item.name_attributes,
                                       name_markup |-> config_item.name_markup,
                                       content |-> List(r.list_index)]))

\* map_items reusing an earlier list whose items equal the nested list's
\* instead of keeping the list built for this item
map_items_interned(items, k, ls, list_index, out) ==
    IF k > Len(items) THEN [lists |-> ls, items |-> out]
    ELSE LET config_item == items[k]
             index == k - 1
         IN  IF config_item.content.tag = "Text"
             THEN map_items(items, k + 1, ls, list_index,
                      Append(out, [name |-> config_item.name,
                                   name_attributes |-> config_item.name_attributes,
                                   name_markup |-> config_item.name_markup,
                                   content |-> Text(config_item.content.text)]))
             ELSE LET r == register_items(config_item.content.items, ls,
                                          Some(ItemIndex(list_index, index)))
                      same == {l \in 0..(Len(ls) - 1) :
                                  ListAt(ls, l).items =
                                      ListAt(r.lists, r.list_index).items}
                      kept == IF same = {} THEN r.lists ELSE ls
                      child == IF same = {} THEN r.list_index
                               ELSE CHOOSE l \in same : TRUE
                  IN  map_items(items, k + 1, kept, list_index,
                          Append(out, [name |-> config_item.name,
                                       name_attributes |-> config_item.name_attributes,
                                       name_markup |-> config_item.name_markup,
                                       content |-> List(child)]))

\* map_items taking lists.len() after the nested call for the child index
\* instead of the index the call returned
map_items_length_after(items, k, ls, list_index, out) ==
    IF k > Len(items) THEN [lists |-> ls, items |-> out]
    ELSE LET config_item == items[k]
             index == k - 1
         IN  IF config_item.content.tag = "Text"
             THEN map_items(items, k + 1, ls, list_index,
                      Append(out, [name |-> config_item.name,
                                   name_attributes |-> config_item.name_attributes,
                                   name_markup |-> config_item.name_markup,
                                   content |-> Text(config_item.content.text)]))
             ELSE LET r == register_items(config_item.content.items, ls,
                                          Some(ItemIndex(list_index, index)))
                  IN  map_items(items, k + 1, r.lists, list_index,
                          Append(out, [name |-> config_item.name,
                                       name_attributes |-> config_item.name_attributes,
                                       name_markup |-> config_item.name_markup,
                                       content |-> List(Len(r.lists))]))

\* map_items calling register_items twice for a submenu and keeping the
\* second index
map_items_registers_twice(items, k, ls, list_index, out) ==
    IF k > Len(items) THEN [lists |-> ls, items |-> out]
    ELSE LET config_item == items[k]
             index == k - 1
         IN  IF config_item.content.tag = "Text"
             THEN map_items(items, k + 1, ls, list_index,
                      Append(out, [name |-> config_item.name,
                                   name_attributes |-> config_item.name_attributes,
                                   name_markup |-> config_item.name_markup,
                                   content |-> Text(config_item.content.text)]))
             ELSE LET first == register_items(config_item.content.items, ls,
                                              Some(ItemIndex(list_index, index)))
                      r == register_items(config_item.content.items, first.lists,
                                          Some(ItemIndex(list_index, index)))
                  IN  map_items(items, k + 1, r.lists, list_index,
                          Append(out, [name |-> config_item.name,
                                       name_attributes |-> config_item.name_attributes,
                                       name_markup |-> config_item.name_markup,
                                       content |-> List(r.list_index)]))

\* map_items storing the raw name_markup as the name of a submenu row
map_items_markup_as_name(items, k, ls, list_index, out) ==
    IF k > Len(items) THEN [lists |-> ls, items |-> out]
    ELSE LET config_item == items[k]
             index == k - 1
         IN  IF config_item.content.tag = "Text"
             THEN map_items(items, k + 1, ls, list_index,
                      Append(out, [name |-> config_item.name,
                                   name_attributes |-> config_item.name_attributes,
                                   name_markup |-> config_item.name_markup,
                                   content |-> Text(config_item.content.text)]))
             ELSE LET r == register_items(config_item.content.items, ls,
                                          Some(ItemIndex(list_index, index)))
                  IN  map_items(items, k + 1, r.lists, list_index,
                          Append(out, [name |-> config_item.name_markup,
                                       name_attributes |-> config_item.name_attributes,
                                       name_markup |-> config_item.name_markup,
                                       content |-> List(r.list_index)]))

\* map_items handing the child the slot after the one its row is stored in
map_items_next_slot(items, k, ls, list_index, out) ==
    IF k > Len(items) THEN [lists |-> ls, items |-> out]
    ELSE LET config_item == items[k]
             index == k - 1
         IN  IF config_item.content.tag = "Text"
             THEN map_items(items, k + 1, ls, list_index,
                      Append(out, [name |-> config_item.name,
                                   name_attributes |-> config_item.name_attributes,
                                   name_markup |-> config_item.name_markup,
                                   content |-> Text(config_item.content.text)]))
             ELSE LET r == register_items(config_item.content.items, ls,
                                          Some(ItemIndex(list_index, index + 1)))
                  IN  map_items(items, k + 1, r.lists, list_index,
                          Append(out, [name |-> config_item.name,
                                       name_attributes |-> config_item.name_attributes,
                                       name_markup |-> config_item.name_markup,
                                       content |-> List(r.list_index)]))

\* map_items handing every child a back-reference into the root list
map_items_back_to_root(items, k, ls, list_index, out) ==
    IF k > Len(items) THEN [lists |-> ls, items |-> out]
    ELSE LET config_item == items[k]
             index == k - 1
         IN  IF config_item.content.tag = "Text"
             THEN map_items(items, k + 1, ls, list_index,
                      Append(out, [name |-> config_item.name,
                                   name_attributes |-> config_item.name_attributes,
                                   name_markup |-> config_item.name_markup,
                                   content |-> Text(config_item.content.text)]))
             ELSE LET r == register_items(config_item.content.items, ls,
                                          Some(ItemIndex(0, index)))
                  IN  map_items(items, k + 1, r.lists, list_index,
                          Append(out, [name |-> config_item.name,
                                       name_attributes |-> config_item.name_attributes,
                                       name_markup |-> config_item.name_markup,
                                       content |-> List(r.list_index)]))

\* the .enumerate().map(..).collect() of register_items, item k onwards;
\* ls is the arena so far, out the items collected so far
map_items(items, k, ls, list_index, out) ==
    IF k > Len(items) THEN [lists |-> ls, items |-> out]
    ELSE LET config_item == items[k]
             index == k - 1
         IN  IF config_item.content.tag = "Text"
             THEN map_items(items, k + 1, ls, list_index,
                      Append(out, [name |-> config_item.name,
                                   name_attributes |-> config_item.name_attributes,
                                   name_markup |-> config_item.name_markup,
                                   content |-> Text(config_item.content.text)]))
             ELSE LET r == register_items(config_item.content.items, ls,
                                          Some(ItemIndex(list_index, index)))
                  IN  map_items(items, k + 1, r.lists, list_index,
                          Append(out, [name |-> config_item.name,
                                       name_attributes |-> config_item.name_attributes,
                                       name_markup |-> config_item.name_markup,
                                       content |-> List(r.list_index)]))

\* lib.rs fn register_items
register_items(items, ls, index) ==
    LET list_index == Len(ls)
        pushed == Append(ls, [index |-> index, items |-> <<>>])
        r == map_items(items, 1, pushed, list_index, <<>>)
    IN  [lists |-> [r.lists EXCEPT ![list_index + 1].items = r.items],
         list_index |-> list_index]

RECURSIVE pushes_of_register_items(_, _, _)
RECURSIVE pushes_of_map_items(_, _, _, _)

\* the pushes of a register_items that fills the slots of its list with
\* placeholders before it registers the submenus
pushes_of_register_items_slots_first(items, ls, index) ==
    LET list_index == Len(ls)
        pushed == Append(ls, [index |-> index,
                              items |-> [k \in 1..Len(items) |->
                                            [name |-> items[k].name,
                                             name_attributes |-> items[k].name_attributes,
                                             name_markup |-> items[k].name_markup,
                                             content |-> Text(<<>>)]]])
    IN  <<pushed>> \o pushes_of_map_items(items, 1, pushed, list_index)

\* the arena as it is right after each lists.push of register_items and of
\* the calls nested in it, in the order of the pushes
pushes_of_register_items(items, ls, index) ==
    LET list_index == Len(ls)
        pushed == Append(ls, [index |-> index, items |-> <<>>])
    IN  <<pushed>> \o pushes_of_map_items(items, 1, pushed, list_index)

\* the pushes made while the items from item k on are mapped; ls is the
\* arena so far, in which the items of list_index are not yet assigned
pushes_of_map_items(items, k, ls, list_index) ==
    IF k > Len(items) THEN <<>>
    ELSE IF items[k].content.tag = "Text"
    THEN pushes_of_map_items(items, k + 1, ls, list_index)
    ELSE LET back == Some(ItemIndex(list_index, k - 1))
             r == register_items(items[k].content.items, ls, back)
         IN  pushes_of_register_items(items[k].content.items, ls, back)
                 \o pushes_of_map_items(items, k + 1, r.lists, list_index)

\* Unicode::try_init
try_init(e, f) ==
    LET config == with_context(read(e, f), "failed to read configuration", <<>>) IN
    IF ~config.ok THEN config
    ELSE LET r == register_items(config.val.root, <<>>, None) IN
         Ok([lists |-> r.lists, active_list |-> r.list_index])

----------------------------------------------------------------------------
(* lib.rs: the read-only callbacks of impl Mode for Unicode *)

\* Unicode::active_list
ActiveList(ls, a) == ListAt(ls, a)
\* Unicode::item
item(ls, a, i) == ItemAt(ls, a, i)

\* Mode::entries
entries(ls, a) == Len(ActiveList(ls, a).items)

\* entry_content handing out Item::name for every row
entry_content_pass_through(ls, a, line) == item(ls, a, line).name

\* Mode::entry_content
entry_content(ls, a, line) ==
    LET it == item(ls, a, line) IN
    IF it.content.tag = "Text" THEN it.name ELSE it.name \o <<"/">>

\* Mode::completed
completed(ls, a, line) == item(ls, a, line).name

RECURSIVE message_loop(_, _, _)
\* the loop of message leaving out the names that are the empty string
message_loop_skips_empty_names(ls, index, parts) ==
    IF index.tag = "None" THEN parts
    ELSE LET item_index == index.val
             list == ListAt(ls, item_index.list)
             name_markup == list.items[item_index.index + 1].name_markup
             sep == IF parts # <<>> THEN <<<<" / ">>>> ELSE <<>>
         IN  IF name_markup = <<>>
             THEN message_loop(ls, list.index, parts)
             ELSE message_loop(ls, list.index, (parts \o sep) \o <<name_markup>>)

\* the while-let loop of Mode::message
message_loop(ls, index, parts) ==
    IF index.tag = "None" THEN parts
    ELSE LET item_index == index.val
             list == ListAt(ls, item_index.list)
             sep == IF parts # <<>> THEN <<<<" / ">>>> ELSE <<>>
         IN  message_loop(ls, list.index,
                 (parts \o sep) \o <<list.items[item_index.index + 1].name_markup>>)

\* message without the .rev(): the parts are joined as they were pushed
message_not_reversed(ls, a) ==
    Concat(message_loop(ls, ActiveList(ls, a).index, <<>>))

RECURSIVE message_loop_plain(_, _, _)
\* the loop of message pushing Item::name instead of Item::name_markup
message_loop_plain(ls, index, parts) ==
    IF index.tag = "None" THEN parts
    ELSE LET item_index == index.val
             list == ListAt(ls, item_index.list)
             sep == IF parts # <<>> THEN <<<<" / ">>>> ELSE <<>>
         IN  message_loop_plain(ls, list.index,
                 (parts \o sep) \o <<list.items[item_index.index + 1].name>>)

\* message showing the parsed plain names
message_plain_names(ls, a) ==
    Concat(Rev(message_loop_plain(ls, ActiveList(ls, a).index, <<>>)))

\* Mode::message
message(ls, a) == Concat(Rev(message_loop(ls, ActiveList(ls, a).index, <<>>)))

\* clipboard_copy with the result of write_all dropped instead of returned
clipboard_copy_write_unchecked(text, outcome) ==
    CASE outcome = "spawn_failed" ->
            Err(<<Layer("failed to spawn xclip", <<>>), Layer("io: NotFound", <<>>)>>)
      [] OTHER -> Ok(text)

\* lib.rs fn clipboard_copy, given what spawning xclip and writing to it do
clipboard_copy(text, outcome) ==
    CASE outcome = "spawn_failed" ->
            Err(<<Layer("failed to spawn xclip", <<>>), Layer("io: NotFound", <<>>)>>)
      [] outcome = "write_failed" -> Err(<<Layer("io: BrokenPipe", <<>>)>>)
      [] OTHER -> Ok(text)

----------------------------------------------------------------------------
(* The configurations the model starts from: a root document of at most    *)
(* MaxWidth keys drawn from Pool, on one of the Hosts (environment and     *)
(* file system, with the fragment files the documents refer to).           *)

nA == <<"a">>
nEmpty == <<>>
nBoldA == <<"<b>", "a", "</b>">>
nAmp == <<"b", "&amp;">>
nBad == <<"<b>", "b">>
pX == <<"x">>
pY == <<"y">>
kExtends == <<"extends">>

fRef == <<"f.ron">>
gRef == <<"g.ron">>
cRef == <<"c.ron">>
kRef == <<"k.ron">>
uRef == <<"u.ron">>
mRef == <<"missing.ron">>
hRef == <<"/", "abs", "h.ron">>

\* the keys a root document is made of
Pool ==
    << Entry(nA, Str(pX)),
       Entry(kExtends, Strs(<<fRef>>)),
       Entry(nBoldA, Str(pY)),
       Entry(nAmp, Map(<<Entry(kExtends, Strs(<<hRef>>)),
                         Entry(nBoldA, Map(<<Entry(nA, Str(pY)),
                                            Entry(nAmp, Map(<<>>)),
                                            Entry(nA, Str(pX))>>)),
                         Entry(nA, Str(pX))>>)),
       Entry(kExtends, Strs(<<gRef, fRef>>)),
       Entry(nBad, Str(pX)),
       Entry(nBad, Map(<<Entry(kExtends, Strs(<<mRef>>))>>)),
       Entry(kExtends, Strs(<<mRef>>)),
       Entry(kExtends, Strs(<<cRef>>)),
       Entry(kExtends, Strs(<<kRef>>)),
       Entry(kExtends, Strs(<<uRef>>)) >>

\* the document {root: {"A": "x", "B": {"C": "y"}}}
RoundTripDoc ==
    << Entry(<<"A">>, Str(pX)),
       Entry(<<"B">>, Map(<<Entry(<<"C">>, Str(pY))>>)) >>

\* the document {root: {"": {"<b>A</b>": {"A": "x"}, "A": "y"}}}: a submenu
\* whose display name is the empty string
EmptyNameDoc ==
    << Entry(nEmpty, Map(<<Entry(nBoldA, Map(<<Entry(nA, Str(pX))>>)),
                           Entry(nA, Str(pY))>>)) >>

RECURSIVE Ascending(_)
\* the keys of Pool numbered in S, in the order of Pool
Ascending(S) ==
    IF S = {} THEN <<>>
    ELSE LET m == CHOOSE x \in S : \A y \in S : x <= y IN
         <<Pool[m]>> \o Ascending(S \ {m})

\* the root documents: at most MaxWidth keys of Pool, in the order of Pool
\* or in the reverse order
RootDocs ==
    LET picks == {S \in SUBSET (1..Len(Pool)) : Cardinality(S) <= MaxWidth} IN
    {Ascending(S) : S \in picks} \cup {Rev(Ascending(S)) : S \in picks}
        \cup {RoundTripDoc, EmptyNameDoc}

\* the fragment files
fUserDoc == Map(<<Entry(nAmp, Str(pY)), Entry(nA, Map(<<Entry(nBoldA, Str(pX))>>))>>)
fSysDoc == Map(<<Entry(nA, Str(pX))>>)
gDoc == Map(<<Entry(kExtends, Strs(<<fRef>>)), Entry(nBoldA, Str(pX))>>)
cDoc == Map(<<Entry(nA, Str(pX)), Entry(kExtends, Strs(<<cRef>>))>>)
kDoc == Map(<<Entry(nA, Str(pY)), Entry(nBad, Str(pX))>>)
hDoc == Map(<<Entry(nA, Str(pY))>>)

File(doc) == [kind |-> "File", text |-> [parses |-> TRUE, doc |-> doc]]
Garbage == [kind |-> "File", text |-> [parses |-> FALSE, doc |-> Str(<<>>)]]
Denied == [kind |-> "Denied"]
ConfigRon(d) == File(Struct(<<Entry(<<"root">>, Map(d))>>))

CfgDir == <<"/", "cfg", "rofi-unicode">>
HomeDir == <<"/", "home", ".config", "rofi-unicode">>
EtcDir == <<"/", "etc", "xdg", "rofi-unicode">>
OptDir == <<"/", "opt", "rofi-unicode">>

XdgEnv == [XDG_CONFIG_HOME |-> Some(<<"/", "cfg">>), HOME |-> Some(<<"/", "home">>),
           XDG_CONFIG_DIRS |-> None]
HomeEnv == [XDG_CONFIG_HOME |-> None, HOME |-> Some(<<"/", "home">>),
            XDG_CONFIG_DIRS |-> Some(<<"/", "opt", ":", "/", "etc", "xdg">>)]
NoEnv == [XDG_CONFIG_HOME |-> None, HOME |-> None, XDG_CONFIG_DIRS |-> None]

Fragments(dir) ==
    (dir \o gRef :> File(gDoc)) @@ (dir \o cRef :> File(cDoc)) @@
    (dir \o kRef :> File(kDoc)) @@ (dir \o uRef :> Garbage) @@
    (hRef :> File(hDoc))

HostNames == {"xdg", "home", "denied", "system-only", "no-home", "unknown-field"}

HostEnv(h) ==
    CASE h = "home" -> HomeEnv
      [] h = "no-home" -> NoEnv
      [] OTHER -> XdgEnv

HostFs(h, d) ==
    CASE h = "xdg" ->
            (CfgDir \o <<"config.ron">> :> ConfigRon(d)) @@ Fragments(CfgDir) @@
            (CfgDir \o fRef :> File(fUserDoc)) @@ (EtcDir \o fRef :> File(fSysDoc))
      [] h = "home" ->
            (HomeDir \o <<"config.ron">> :> ConfigRon(d)) @@ Fragments(OptDir) @@
            (EtcDir \o fRef :> File(fSysDoc))
      [] h = "denied" ->
            (CfgDir \o <<"config.ron">> :> ConfigRon(d)) @@ Fragments(CfgDir) @@
            (CfgDir \o fRef :> Denied) @@ (EtcDir \o fRef :> File(fSysDoc))
      [] h = "system-only" ->
            (EtcDir \o <<"config.ron">> :> ConfigRon(d)) @@ Fragments(EtcDir) @@
            (EtcDir \o fRef :> File(fSysDoc))
      [] h = "no-home" ->
            (CfgDir \o <<"config.ron">> :> ConfigRon(d)) @@ Fragments(CfgDir) @@
            (HomeDir \o <<"config.ron">> :> ConfigRon(d))
      [] OTHER ->
            (CfgDir \o <<"config.ron">> :>
                File(Struct(<<Entry(<<"root">>, Map(d)),
                              Entry(<<"theme">>, Map(<<>>))>>))) @@
            Fragments(CfgDir)

\* what the user may have typed into the search box
Inputs == {<<>>, <<"q">>}
\* what spawning xclip and writing to its stdin can do
CopyOutcomes == {"ok", "spawn_failed", "write_failed"}

NoEvent == [kind |-> "None", selected |-> None]

----------------------------------------------------------------------------
(* The state machine *)

Init ==
    /\ \E h \in HostNames, d \in RootDocs :
          /\ Len(d) <= (IF h = "xdg" THEN MaxWidth ELSE ProbeWidth)
          /\ env = HostEnv(h)
          /\ fs = HostFs(h, d)
    /\ phase = "start"
    /\ lists = <<>>
    /\ active_list = 0
    /\ input = <<>>
    /\ event = NoEvent
    /\ action = "None"
    /\ copy_result = "none"
    /\ error = <<>>
    /\ clipboard = <<>>

\* Mode::init
ModeInit ==
    /\ phase = "start"
    /\ LET r == try_init(env, fs) IN
       IF r.ok
       THEN /\ phase' = "ready"
            /\ lists' = r.val.lists
            /\ active_list' = r.val.active_list
            /\ error' = error
       ELSE /\ phase' = IF Overflowed(r) THEN "overflow" ELSE "failed"
            /\ error' = IF Overflowed(r) THEN error ELSE r.err
            /\ UNCHANGED <<lists, active_list>>
    /\ UNCHANGED <<env, fs, input, event, action, copy_result, clipboard>>

\* the user edits the search box between two callbacks
HostInput ==
    /\ phase = "ready"
    /\ input' \in Inputs \ {input}
    /\ event' = NoEvent
    /\ action' = "None"
    /\ copy_result' = "none"
    /\ UNCHANGED <<env, fs, phase, lists, active_list, error, clipboard>>

\* react on Cancel that clears the input before looking for a parent
ReactCancel_clear_always ==
    /\ phase = "ready"
    /\ event' = [kind |-> "Cancel", selected |-> None]
    /\ input' = <<>>
    /\ LET index == ActiveList(lists, active_list).index IN
       IF index.tag = "Some"
       THEN /\ active_list' = index.val.list
            /\ action' = "Reload"
       ELSE /\ action' = "Exit"
            /\ UNCHANGED active_list
    /\ phase' = IF action' = "Exit" THEN "exited" ELSE "ready"
    /\ copy_result' = "none"
    /\ UNCHANGED <<env, fs, lists, error, clipboard>>

\* react on Cancel that goes back to the root list instead of the parent
ReactCancel_to_root ==
    /\ phase = "ready"
    /\ event' = [kind |-> "Cancel", selected |-> None]
    /\ LET index == ActiveList(lists, active_list).index IN
       IF index.tag = "Some"
       THEN /\ active_list' = 0
            /\ input' = <<>>
            /\ action' = "Reload"
       ELSE /\ action' = "Exit"
            /\ UNCHANGED <<active_list, input>>
    /\ phase' = IF action' = "Exit" THEN "exited" ELSE "ready"
    /\ copy_result' = "none"
    /\ UNCHANGED <<env, fs, lists, error, clipboard>>

\* react on Cancel that takes the back-reference out of the list it leaves
ReactCancel_takes_back_reference ==
    /\ phase = "ready"
    /\ event' = [kind |-> "Cancel", selected |-> None]
    /\ LET index == ActiveList(lists, active_list).index IN
       IF index.tag = "Some"
       THEN /\ active_list' = index.val.list
            /\ lists' = [lists EXCEPT ![active_list + 1].index = None]
            /\ input' = <<>>
            /\ action' = "Reload"
       ELSE /\ action' = "Exit"
            /\ UNCHANGED <<active_list, input, lists>>
    /\ phase' = IF action' = "Exit" THEN "exited" ELSE "ready"
    /\ copy_result' = "none"
    /\ UNCHANGED <<env, fs, error, clipboard>>

\* react on Cancel that goes back to the list pushed just before the active one
ReactCancel_to_previous_list ==
    /\ phase = "ready"
    /\ event' = [kind |-> "Cancel", selected |-> None]
    /\ LET index == ActiveList(lists, active_list).index IN
       IF index.tag = "Some"
       THEN /\ active_list' = active_list - 1
            /\ input' = <<>>
            /\ action' = "Reload"
       ELSE /\ action' = "Exit"
            /\ UNCHANGED <<active_list, input>>
    /\ phase' = IF action' = "Exit" THEN "exited" ELSE "ready"
    /\ copy_result' = "none"
    /\ UNCHANGED <<env, fs, lists, error, clipboard>>

\* react on Cancel that reloads the root list instead of leaving
ReactCancel_reload_at_root ==
    /\ phase = "ready"
    /\ event' = [kind |-> "Cancel", selected |-> None]
    /\ LET index == ActiveList(lists, active_list).index IN
       IF index.tag = "Some"
       THEN /\ active_list' = index.val.list
            /\ input' = <<>>
            /\ action' = "Reload"
       ELSE /\ action' = "Reload"
            /\ UNCHANGED <<active_list, input>>
    /\ phase' = IF action' = "Exit" THEN "exited" ELSE "ready"
    /\ copy_result' = "none"
    /\ UNCHANGED <<env, fs, lists, error, clipboard>>

\* Mode::react, Event::Cancel
ReactCancel ==
    /\ phase = "ready"
    /\ event' = [kind |-> "Cancel", selected |-> None]
    /\ LET index == ActiveList(lists, active_list).index IN
       IF index.tag = "Some"
       THEN /\ active_list' = index.val.list
            /\ input' = <<>>
            /\ action' = "Reload"
       ELSE /\ action' = "Exit"
            /\ UNCHANGED <<active_list, input>>
    /\ phase' = IF action' = "Exit" THEN "exited" ELSE "ready"
    /\ copy_result' = "none"
    /\ UNCHANGED <<env, fs, lists, error, clipboard>>

\* react on Ok of a leaf row that returns to the root list when the copy fails
ReactOkText_reset_on_failure ==
    /\ phase = "ready"
    /\ Len(clipboard) < MaxCopies
    /\ \E selected \in 0..(entries(lists, active_list) - 1), outcome \in CopyOutcomes :
          LET content == item(lists, active_list, selected).content IN
          /\ content.tag = "Text"
          /\ event' = [kind |-> "Ok", selected |-> Some(selected)]
          /\ clipboard' = Append(clipboard, content.text)
          /\ copy_result' = outcome
          /\ action' = IF clipboard_copy(content.text, outcome).ok
                       THEN "Exit" ELSE "Reload"
    /\ active_list' = IF action' = "Exit" THEN active_list ELSE 0
    /\ phase' = IF action' = "Exit" THEN "exited" ELSE "ready"
    /\ UNCHANGED <<env, fs, lists, input, error>>

\* react on Ok of a leaf row that copies the row's name instead of its text
ReactOkText_copies_name ==
    /\ phase = "ready"
    /\ Len(clipboard) < MaxCopies
    /\ \E selected \in 0..(entries(lists, active_list) - 1), outcome \in CopyOutcomes :
          LET it == item(lists, active_list, selected) IN
          /\ it.content.tag = "Text"
          /\ event' = [kind |-> "Ok", selected |-> Some(selected)]
          /\ clipboard' = Append(clipboard, it.name)
          /\ copy_result' = outcome
          /\ action' = IF clipboard_copy(it.name, outcome).ok
                       THEN "Exit" ELSE "Reload"
    /\ phase' = IF action' = "Exit" THEN "exited" ELSE "ready"
    /\ UNCHANGED <<env, fs, lists, active_list, input, error>>

\* react on Ok of a leaf row that calls clipboard_copy a second time when
\* the first call fails
ReactOkText_retries_once ==
    /\ phase = "ready"
    /\ Len(clipboard) < MaxCopies
    /\ \E selected \in 0..(entries(lists, active_list) - 1), outcome \in CopyOutcomes :
          LET content == item(lists, active_list, selected).content IN
          /\ content.tag = "Text"
          /\ event' = [kind |-> "Ok", selected |-> Some(selected)]
          /\ clipboard' = IF clipboard_copy(content.text, outcome).ok
                          THEN Append(clipboard, content.text)
                          ELSE clipboard \o <<content.text, content.text>>
          /\ copy_result' = outcome
          /\ action' = IF clipboard_copy(content.text, outcome).ok
                       THEN "Exit" ELSE "Reload"
    /\ phase' = IF action' = "Exit" THEN "exited" ELSE "ready"
    /\ UNCHANGED <<env, fs, lists, active_list, input, error>>

\* Mode::react, Event::Ok on a row whose content is Content::Text
ReactOkText ==
    /\ phase = "ready"
    /\ Len(clipboard) < MaxCopies
    /\ \E selected \in 0..(entries(lists, active_list) - 1), outcome \in CopyOutcomes :
          LET content == item(lists, active_list, selected).content IN
          /\ content.tag = "Text"
          /\ event' = [kind |-> "Ok", selected |-> Some(selected)]
          /\ clipboard' = Append(clipboard, content.text)
          /\ copy_result' = outcome
          /\ action' = IF clipboard_copy(content.text, outcome).ok
                       THEN "Exit" ELSE "Reload"
    /\ phase' = IF action' = "Exit" THEN "exited" ELSE "ready"
    /\ UNCHANGED <<env, fs, lists, active_list, input, error>>

\* react on Ok of a submenu row that takes the row number for the list index
ReactOkList_row_as_list ==
    /\ phase = "ready"
    /\ \E selected \in 0..(entries(lists, active_list) - 1) :
          LET content == item(lists, active_list, selected).content IN
          /\ content.tag = "List"
          /\ selected < Len(lists)
          /\ event' = [kind |-> "Ok", selected |-> Some(selected)]
          /\ active_list' = selected
    /\ action' = "Reload"
    /\ copy_result' = "none"
    /\ UNCHANGED <<env, fs, phase, lists, input, error, clipboard>>

\* Mode::react, Event::Ok on a row whose content is Content::List
ReactOkList ==
    /\ phase = "ready"
    /\ \E selected \in 0..(entries(lists, active_list) - 1) :
          LET content == item(lists, active_list, selected).content IN
          /\ content.tag = "List"
          /\ event' = [kind |-> "Ok", selected |-> Some(selected)]
          /\ active_list' = content.list
    /\ action' = "Reload"
    /\ copy_result' = "none"
    /\ UNCHANGED <<env, fs, phase, lists, input, error, clipboard>>

\* react on Complete that pushes the name without clearing the input first
ReactComplete_push_without_clear ==
    /\ phase = "ready"
    /\ \E selected \in 0..(entries(lists, active_list) - 1) :
          /\ event' = [kind |-> "Complete", selected |-> Some(selected)]
          /\ input' = input \o item(lists, active_list, selected).name
    /\ action' = "Reload"
    /\ copy_result' = "none"
    /\ UNCHANGED <<env, fs, phase, lists, active_list, error, clipboard>>

\* react on Complete that also copies the completed name to the clipboard
ReactComplete_copies_name ==
    /\ phase = "ready"
    /\ Len(clipboard) < MaxCopies
    /\ \E selected \in 0..(entries(lists, active_list) - 1) :
          /\ event' = [kind |-> "Complete", selected |-> Some(selected)]
          /\ input' = item(lists, active_list, selected).name
          /\ clipboard' = Append(clipboard, item(lists, active_list, selected).name)
    /\ action' = "Reload"
    /\ copy_result' = "none"
    /\ UNCHANGED <<env, fs, phase, lists, active_list, error>>

\* Mode::react, Event::Complete { selected: Some(selected) }
ReactComplete ==
    /\ phase = "ready"
    /\ \E selected \in 0..(entries(lists, active_list) - 1) :
          /\ event' = [kind |-> "Complete", selected |-> Some(selected)]
          /\ input' = item(lists, active_list, selected).name
    /\ action' = "Reload"
    /\ copy_result' = "none"
    /\ UNCHANGED <<env, fs, phase, lists, active_list, error, clipboard>>

\* react clearing the input on the events it has nothing to do for
ReactIgnored_clears_input ==
    /\ phase = "ready"
    /\ \E kind \in {"CustomInput", "Complete", "DeleteEntry", "CustomCommand"} :
          event' = [kind |-> kind, selected |-> None]
    /\ input' = <<>>
    /\ action' = "Reload"
    /\ copy_result' = "none"
    /\ UNCHANGED <<env, fs, phase, lists, active_list, error, clipboard>>

\* Mode::react, the events it ignores
ReactIgnored ==
    /\ phase = "ready"
    /\ \E kind \in {"CustomInput", "Complete", "DeleteEntry", "CustomCommand"} :
          event' = [kind |-> kind, selected |-> None]
    /\ action' = "Reload"
    /\ copy_result' = "none"
    /\ UNCHANGED <<env, fs, phase, lists, active_list, input, error, clipboard>>

Next ==
    \/ ModeInit
    \/ HostInput
    \/ ReactCancel
    \/ ReactOkText
    \/ ReactOkList
    \/ ReactComplete
    \/ ReactIgnored

Spec == Init /\ [][Next]_vars

----------------------------------------------------------------------------
(* Properties of the navigation callbacks *)

\* the content of the row the event of this step selects, in the list that
\* is active when react is called
SelectedContent == item(lists, active_list, event'.selected.val).content
\* the back-reference of the list that is active when react is called
ActiveIndex == ActiveList(lists, active_list).index

RECURSIVE Depth(_, _)
\* the number of back-reference steps from list l to the root
Depth(ls, l) ==
    IF ListAt(ls, l).index.tag = "None" THEN 0
    ELSE 1 + Depth(ls, ListAt(ls, l).index.val.list)

\* C1: react(Ok{selected: i}) on a row whose content is List(c) sets
\* active_list to exactly c and returns Reload.
C1_OkSubmenuEnters ==
    [][(event'.kind = "Ok" /\ SelectedContent.tag = "List")
          => (active_list' = SelectedContent.list /\ action' = "Reload")]_vars

\* C1 happens: a submenu was entered through a row other than row 0 from a
\* list other than the root.
C1_Witness ==
    /\ event.kind = "Ok" /\ action = "Reload" /\ copy_result = "none"
    /\ ActiveList(lists, active_list).index.tag = "Some"
    /\ ActiveList(lists, active_list).index.val.list # 0
    /\ ActiveList(lists, active_list).index.val.index = event.selected.val
    /\ event.selected.val # active_list

\* C2: react(Ok{selected: i}) on a row whose content is Text leaves
\* active_list unchanged, whether the clipboard copy succeeds or fails.
C2_OkLeafKeepsList ==
    [][(event'.kind = "Ok" /\ SelectedContent.tag = "Text")
          => active_list' = active_list]_vars

\* C2 happens: in a submenu a copy failed and a second one then succeeded.
C2_Witness ==
    /\ event.kind = "Ok" /\ copy_result = "ok" /\ Len(clipboard) = 2
    /\ active_list # 0

\* C3: selecting a leaf row returns Exit when clipboard_copy succeeds, and
\* Reload, with the menu open on the same list, when it fails to spawn or to
\* write.
C3_CopyDecidesAction ==
    [][(event'.kind = "Ok" /\ SelectedContent.tag = "Text")
          => /\ copy_result' \in CopyOutcomes
             /\ copy_result' = "ok" => (action' = "Exit" /\ phase' = "exited")
             /\ copy_result' # "ok" => /\ action' = "Reload"
                                       /\ phase' = "ready"
                                       /\ active_list' = active_list
                                       /\ lists' = lists]_vars

\* C3 happens: a copy failed on the write and the menu is still open.
C3_Witness ==
    /\ event.kind = "Ok" /\ copy_result = "write_failed" /\ action = "Reload"
    /\ phase = "ready" /\ active_list # 0

\* C4: react(Cancel) in a list with back-reference Some((p, s)) sets
\* active_list to p, clears the input, returns Reload, and the nesting depth
\* of the active list decreases by exactly one.
C4_CancelGoesToParent ==
    [][(event'.kind = "Cancel" /\ ActiveIndex.tag = "Some")
          => /\ active_list' = ActiveIndex.val.list
             /\ input' = <<>>
             /\ action' = "Reload"
             /\ Depth(lists', active_list') = Depth(lists, active_list) - 1]_vars

\* C4 happens: Cancel has led from a list of depth two or more to its parent.
C4_Witness ==
    /\ event.kind = "Cancel" /\ action = "Reload"
    /\ Depth(lists, active_list) >= 1 /\ input = <<>>

\* C5: react(Cancel) in the root list returns Exit and changes neither
\* active_list nor the input.
C5_CancelAtRootExits ==
    [][(event'.kind = "Cancel" /\ ActiveIndex.tag = "None")
          => /\ action' = "Exit"
             /\ active_list' = active_list
             /\ input' = input]_vars

\* C5 happens: Cancel at the root with text in the search box.
C5_Witness ==
    /\ event.kind = "Cancel" /\ action = "Exit" /\ phase = "exited"
    /\ active_list = 0 /\ input # <<>>

----------------------------------------------------------------------------
(* Properties of the breadcrumb *)

\* every (list, slot) of the arena
Slots(ls) ==
    UNION {{ItemIndex(p, s) : s \in 0..(Len(ListAt(ls, p).items) - 1)} :
              p \in 0..(Len(ls) - 1)}

\* the row whose content is List(c)
Opener(ls, c) ==
    CHOOSE o \in Slots(ls) : ItemAt(ls, o.list, o.index).content = List(c)

RECURSIVE EntryPath(_, _)
\* the markup names of the rows selected on the way down from the root to
\* list c, outermost first, following the rows' child references
EntryPath(ls, c) ==
    IF c = 0 THEN <<>>
    ELSE LET o == Opener(ls, c) IN
         Append(EntryPath(ls, o.list), ItemAt(ls, o.list, o.index).name_markup)

RECURSIVE BackNames(_, _)
\* the markup names of the items the back-references from list l name,
\* outermost first
BackNames(ls, l) ==
    LET index == ListAt(ls, l).index IN
    IF index.tag = "None" THEN <<>>
    ELSE Append(BackNames(ls, index.val.list),
                ItemAt(ls, index.val.list, index.val.index).name_markup)

RECURSIVE Joined(_)
\* names joined by " / "
Joined(names) ==
    IF names = <<>> THEN <<>>
    ELSE IF Len(names) = 1 THEN names[1]
    ELSE names[1] \o <<" / ">> \o Joined(Tail(names))

\* C6: message() is empty at the root, and at nesting depth d >= 1 it is
\* exactly d names joined by " / ", the outermost ancestor first and the row
\* that opened the active list last.
C6_BreadcrumbOrder ==
    phase = "ready" =>
        LET names == EntryPath(lists, active_list) IN
        /\ Len(names) = Depth(lists, active_list)
        /\ message(lists, active_list) = Joined(names)
        /\ active_list = 0 => message(lists, active_list) = <<>>

\* C6 happens: the active list is two levels down and the two names differ.
C6_Witness ==
    /\ phase = "ready"
    /\ Depth(lists, active_list) = 2
    /\ EntryPath(lists, active_list)[1] # EntryPath(lists, active_list)[2]

\* C7: each name of the breadcrumb is the name_markup (not the parsed name)
\* of the item lists[parent_list].items[parent_slot] that the back-reference
\* of the corresponding list names, walking from the active list to the root.
C7_BreadcrumbMarkup ==
    phase = "ready" =>
        message(lists, active_list) = Joined(BackNames(lists, active_list))

\* C7 happens: the active list was opened by a row whose markup differs from
\* its plain name.
C7_Witness ==
    /\ phase = "ready"
    /\ ActiveList(lists, active_list).index.tag = "Some"
    /\ LET o == ActiveList(lists, active_list).index.val IN
       ItemAt(lists, o.list, o.index).name # ItemAt(lists, o.list, o.index).name_markup

----------------------------------------------------------------------------
(* Properties of the arena and of resolution *)

RECURSIVE StepsToRoot(_, _, _)
\* the number of back-reference steps from list l to a list without one,
\* -1 when there are more than fuel
StepsToRoot(ls, l, fuel) ==
    IF ListAt(ls, l).index.tag = "None" THEN 0
    ELSE IF fuel = 0 THEN -1
    ELSE LET n == StepsToRoot(ls, ListAt(ls, l).index.val.list, fuel - 1) IN
         IF n = -1 THEN -1 ELSE n + 1

RECURSIVE TreeDepths(_, _)
\* the nesting depths of the submenus of a resolved tree in pre-order, the
\* node itself (at depth d) first
TreeDepths(items, d) ==
    <<d>> \o Concat([k \in 1..Len(items) |->
                        IF items[k].content.tag = "Items"
                        THEN TreeDepths(items[k].content.items, d + 1)
                        ELSE <<>>])

\* the unresolved root node of config.ron
BaseRoot ==
    LET paths == from_env(env).val IN
    from_str_Base(fs_read_to_string(fs,
        join(config_home(paths), <<"config.ron">>)).val).val.root

\* C8: following back-references from any list of the arena reaches the root
\* in a number of steps equal to that list's nesting depth in the resolved
\* tree; there is no cycle.
C8_BackReferencesReachRoot ==
    phase = "ready" =>
        LET depths == TreeDepths(read(env, fs).val.root, 0) IN
        /\ Len(lists) = Len(depths)
        /\ \A l \in 0..(Len(lists) - 1) :
              StepsToRoot(lists, l, Len(lists)) = depths[l + 1]

\* C8 happens: an arena with a list three levels down.
C8_Witness ==
    /\ phase = "ready"
    /\ \E l \in 0..(Len(lists) - 1) : StepsToRoot(lists, l, Len(lists)) = 3

\* the lists without a back-reference
Roots(ls) == {l \in 0..(Len(ls) - 1) : ListAt(ls, l).index.tag = "None"}

\* C9: in the arena try_init builds exactly one list has back-reference
\* None, it is list 0, and active_list starts as 0.
C9_OneRootAtZero ==
    [][phase' = "ready"
          => /\ Roots(lists') = {0}
             /\ phase = "start" => active_list' = 0]_vars

\* C9 happens: init has just built an arena of several lists.
C9_Witness ==
    /\ phase = "ready" /\ event = NoEvent /\ clipboard = <<>> /\ input = <<>>
    /\ active_list = 0 /\ Len(lists) >= 4

RECURSIVE Flattened(_, _, _)
\* direct ++ resolve(f1) ++ ... ++ resolve(fn) of an unresolved node
Flattened(f, paths, node) ==
    LET direct == [k \in 1..Len(node.direct) |->
                      LET it == node.direct[k]
                          m == parse_markup(it.name)
                      IN  ConfigItem(m.name, m.attributes, it.name,
                              IF it.content.tag = "Text"
                              THEN Text(it.content.text)
                              ELSE Items(Flattened(f, paths, it.content.items)))]
        included == [k \in 1..Len(node.extends) |->
                        Flattened(f, paths,
                            from_str_UnresolvedItems(
                                read_to_string(f, paths, node.extends[k]).val).val)]
    IN  direct \o Concat(included)

\* C10: resolve produces exactly direct ++ resolve(f1) ++ ... ++ resolve(fn),
\* recursively, for the root and every nested node; nothing is dropped,
\* merged or reordered when display names collide.
C10_ResolveConcatenates ==
    [][(phase = "start" /\ phase' = "ready")
          => read(env, fs).val.root = Flattened(fs, from_env(env).val, BaseRoot)]_vars

\* C10 happens: a root with direct keys and two included fragments, two of
\* whose rows carry the same display name.
C10_Witness ==
    /\ phase = "ready"
    /\ Len(BaseRoot.direct) >= 1 /\ Len(BaseRoot.extends) = 2
    /\ \E i, j \in 1..Len(ListAt(lists, 0).items) :
          /\ i < j
          /\ ListAt(lists, 0).items[i].name_markup = ListAt(lists, 0).items[j].name_markup

\* the rows whose content is List(c)
Referrers(ls, c) ==
    {o \in Slots(ls) : ItemAt(ls, o.list, o.index).content = List(c)}

\* C11: when a fragment is included from several places every submenu it
\* contains becomes a list of its own per inclusion: the arena has one list
\* per submenu of the resolved tree, and each list other than the root is
\* referenced by exactly one item, the one its back-reference names.
C11_OneListPerInclusion ==
    [][(phase = "start" /\ phase' = "ready")
          => /\ Len(lists') = Len(TreeDepths(read(env, fs).val.root, 0))
             /\ Referrers(lists', 0) = {}
             /\ \A c \in 1..(Len(lists') - 1) :
                   /\ Cardinality(Referrers(lists', c)) = 1
                   /\ ListAt(lists', c).index.tag = "Some"
                   /\ ListAt(lists', c).index.val \in Referrers(lists', c)]_vars

\* C11 happens: f.ron is included by the root and by g.ron, and the submenu
\* it holds is in the arena twice, as two lists with the same items.
C11_Witness ==
    /\ phase = "ready"
    /\ BaseRoot.extends = <<gRef, fRef>>
    /\ \E c, d \in 1..(Len(lists) - 1) :
          /\ c # d
          /\ ListAt(lists, c).items = ListAt(lists, d).items
          /\ ListAt(lists, c).index # ListAt(lists, d).index

----------------------------------------------------------------------------
(* The round-trip scenario *)

\* the configuration is the round-trip document
IsRoundTrip == fs = HostFs("xdg", RoundTripDoc)

\* the arena the scenario names
RoundTripArena ==
    << [index |-> None,
        items |-> << [name |-> <<"A">>, name_attributes |-> <<>>,
                      name_markup |-> <<"A">>, content |-> Text(pX)],
                     [name |-> <<"B">>, name_attributes |-> <<>>,
                      name_markup |-> <<"B">>, content |-> List(1)] >>],
       [index |-> Some(ItemIndex(0, 1)),
        items |-> << [name |-> <<"C">>, name_attributes |-> <<>>,
                      name_markup |-> <<"C">>, content |-> Text(pY)] >>] >>

\* what the scenario says up to the selection of C
RoundTripUpToCopy ==
    /\ lists' = RoundTripArena
    /\ (event'.kind = "Ok" /\ active_list = 0 /\ event'.selected.val = 1)
          => active_list' = 1
    /\ active_list' = 1 => message(lists', active_list') = <<"B">>
    /\ (event'.kind = "Ok" /\ active_list = 1)
          => clipboard' = Append(clipboard, pY)

\* C12 as stated: the round-trip document yields the two-list arena, the
\* breadcrumb after selecting B is "B", and selecting C invokes the
\* clipboard with "y" and returns Exit.
C12_RoundTripAsStated ==
    [][(IsRoundTrip /\ phase' \in {"ready", "exited"})
          => /\ RoundTripUpToCopy
             /\ (event'.kind = "Ok" /\ active_list = 1) => action' = "Exit"]_vars

\* C12 amended: as stated, except that selecting C returns Exit when the
\* copy succeeds and Reload when it fails.
C12_RoundTrip ==
    [][(IsRoundTrip /\ phase' \in {"ready", "exited"})
          => /\ RoundTripUpToCopy
             /\ (event'.kind = "Ok" /\ active_list = 1)
                   => /\ copy_result' = "ok" => action' = "Exit"
                      /\ copy_result' # "ok" => action' = "Reload"]_vars

\* C12 happens: in the scenario C was selected and copied.
C12_Witness ==
    /\ IsRoundTrip /\ phase = "exited" /\ active_list = 1
    /\ event = [kind |-> "Ok", selected |-> Some(0)]
    /\ copy_result = "ok" /\ action = "Exit" /\ clipboard = <<pY>>

----------------------------------------------------------------------------
(* Fragments and the search path *)

RECURSIVE Nodes(_, _, _, _)
\* the nodes of the configuration: node, the submenus nested in it and the
\* fragments it includes that can be read and deserialized, fuel levels down
Nodes(f, paths, node, fuel) ==
    LET nested == {node.direct[k].content.items :
                      k \in {j \in 1..Len(node.direct) :
                                node.direct[j].content.tag = "Items"}}
        texts == {read_to_string(f, paths, node.extends[k]) :
                      k \in 1..Len(node.extends)}
        parsed == {from_str_UnresolvedItems(t.val) : t \in {x \in texts : x.ok}}
        included == {r.val : r \in {x \in parsed : x.ok}}
    IN  {node} \cup
        (IF fuel = 0 THEN {}
         ELSE UNION {Nodes(f, paths, n, fuel - 1) : n \in nested \cup included})

\* every node of the configuration in config.ron
AllNodes == Nodes(fs, from_env(env).val, BaseRoot, MaxDepth)
\* every reference some extends key of the configuration names
AllRefs == UNION {{n.extends[k] : k \in 1..Len(n.extends)} : n \in AllNodes}
\* every display name some item of the configuration has
AllNames == UNION {{n.direct[k].name : k \in 1..Len(n.direct)} : n \in AllNodes}

\* config.ron was read and deserialized
RootParsed ==
    /\ from_env(env).ok
    /\ LET t == fs_read_to_string(fs, join(config_home(from_env(env).val),
                                           <<"config.ron">>))
       IN  t.ok /\ from_str_Base(t.val).ok

\* the relative reference ref exists under none of the bases
Missing(ref) ==
    /\ ~is_absolute(ref)
    /\ \A k \in 1..Len(from_env(env).val.bases) :
          join(from_env(env).val.bases[k], ref) \notin DOMAIN fs

\* the innermost layer of the error init failed with
RootCause == error[Len(error)]
\* some layer of the error carries x
Names(x) == \E i \in 1..Len(error) : error[i].arg = x

\* what C13 says apart from the bases: a missing reference in the
\* configuration fails init with no arena, and the error of a reference that
\* could not be resolved names a missing reference of the configuration
MissingFails ==
    /\ (RootParsed /\ \E ref \in AllRefs : Missing(ref))
          => (phase \in {"failed", "overflow"} /\ lists = <<>>)
    /\ (phase = "failed" /\ RootCause.msg = "could not resolve path")
          => (RootCause.arg \in AllRefs /\ Missing(RootCause.arg) /\ lists = <<>>)

RelativeRefs == {fRef, gRef, cRef, kRef, uRef, mRef}

\* the smallest member of a non-empty set of numbers
Min(S) == CHOOSE x \in S : \A y \in S : x <= y

\* C14: read_to_string tries the user base, then the system-wide bases in
\* their listed order, each with rofi-unicode appended, and returns the
\* content of the first base that has the file, never that of a later one.
C14_FirstBaseWins ==
    (phase # "start" /\ from_env(env).ok) =>
        LET paths == from_env(env).val
            bases == paths.bases
        IN  /\ env = XdgEnv => bases = <<CfgDir, EtcDir>>
            /\ env = HomeEnv => bases = <<HomeDir, OptDir, EtcDir>>
            /\ \A ref \in RelativeRefs :
                  LET has == {k \in 1..Len(bases) : join(bases[k], ref) \in DOMAIN fs}
                      r == read_to_string(fs, paths, ref)
                  IN  /\ r.ok => (has # {} /\
                                  r.val = fs[join(bases[Min(has)], ref)].text)
                      /\ (has # {} /\ fs[join(bases[Min(has)], ref)].kind = "File")
                            => r.ok

\* C14 happens: f.ron is in the user base and in a system-wide base with
\* different contents, and the arena holds the rows of the user's file.
C14_Witness ==
    /\ phase = "ready" /\ env = XdgEnv
    /\ fs[CfgDir \o fRef] = File(fUserDoc) /\ fs[EtcDir \o fRef] = File(fSysDoc)
    /\ BaseRoot = [extends |-> <<fRef>>, direct |-> <<>>]
    /\ ItemAt(lists, 0, 0).name_markup = nAmp

\* the path of config.ron in base k
ConfigRonIn(k) == join(from_env(env).val.bases[k], <<"config.ron">>)

\* C15 as stated: config.ron is looked up through the search path, so init
\* does not fail for want of config.ron when some base has it.
C15_RootConfigSearched ==
    (phase # "start" /\ from_env(env).ok) =>
        ((\E k \in 1..Len(from_env(env).val.bases) : ConfigRonIn(k) \in DOMAIN fs)
            => ~(phase = "failed" /\ RootCause.msg = "io: NotFound"))

\* C15 amended: config.ron is read from the user-specific base only; when
\* it is not there init fails, whatever the system-wide bases hold.
C15_RootConfigInHomeOnly ==
    (phase # "start" /\ from_env(env).ok) =>
        /\ ConfigRonIn(1) \notin DOMAIN fs
              => /\ phase = "failed" /\ lists = <<>>
                 /\ RootCause.msg = "io: NotFound"
                 /\ Names(ConfigRonIn(1))
        /\ phase = "ready" => ConfigRonIn(1) \in DOMAIN fs

\* C15 happens: init failed although a system-wide base has config.ron.
C15_Witness ==
    /\ phase = "failed" /\ from_env(env).ok
    /\ ConfigRonIn(1) \notin DOMAIN fs
    /\ ConfigRonIn(2) \in DOMAIN fs /\ fs[ConfigRonIn(2)].kind = "File"

----------------------------------------------------------------------------
(* Completion, rendering and the frame of react *)

\* C16: react(Complete{selected: Some(i)}) replaces the whole input with the
\* plain, markup-stripped name of row i of the active list, returns Reload
\* and leaves active_list unchanged.
C16_CompleteReplacesInput ==
    [][(event'.kind = "Complete" /\ event'.selected.tag = "Some")
          => LET it == item(lists, active_list, event'.selected.val) IN
             /\ input' = parse_markup(it.name_markup).name
             /\ action' = "Reload"
             /\ active_list' = active_list]_vars

\* C16 happens: in a submenu a row whose markup differs from its plain name
\* was completed.
C16_Witness ==
    /\ phase = "ready" /\ active_list # 0
    /\ event.kind = "Complete" /\ event.selected.tag = "Some"
    /\ action = "Reload"
    /\ input = item(lists, active_list, event.selected.val).name
    /\ input # item(lists, active_list, event.selected.val).name_markup

\* the rows of list l
Rows(ls, l) == 0..(Len(ListAt(ls, l).items) - 1)

\* C17 as stated: for every row, leaf or submenu, entry_content is the plain
\* display name with nothing added or removed.
C17_EntryContentPassThrough ==
    phase = "ready" =>
        \A i \in Rows(lists, active_list) :
            entry_content(lists, active_list, i) =
                parse_markup(item(lists, active_list, i).name_markup).name

\* C17 amended: entry_content is the plain display name for a leaf row, and
\* the plain display name followed by "/" for a submenu row.
C17_EntryContentMarksSubmenus ==
    phase = "ready" =>
        \A i \in Rows(lists, active_list) :
            LET it == item(lists, active_list, i)
                plain == parse_markup(it.name_markup).name
            IN  entry_content(lists, active_list, i) =
                    IF it.content.tag = "List" THEN plain \o <<"/">> ELSE plain

\* C17 happens: a submenu is shown that has a leaf row and a submenu row
\* whose names carry markup.
C17_Witness ==
    /\ phase = "ready" /\ active_list # 0
    /\ \E i, j \in Rows(lists, active_list) :
          /\ item(lists, active_list, i).content.tag = "Text"
          /\ item(lists, active_list, j).content.tag = "List"
          /\ item(lists, active_list, j).name # item(lists, active_list, j).name_markup

\* C18: react leaves the arena as try_init built it: the lists, their
\* back-references and their items never change once init has returned.
C18_ArenaImmutable ==
    [][/\ (phase = "start" /\ phase' = "ready")
             => lists' = try_init(env, fs).val.lists
       /\ phase = "ready" => lists' = lists]_vars

\* C18 happens: after a copy that failed and a Cancel that went up to a
\* list below the root the arena is the one try_init built.
C18_Witness ==
    /\ phase = "ready" /\ event.kind = "Cancel" /\ action = "Reload"
    /\ clipboard # <<>> /\ active_list # 0
    /\ lists = try_init(env, fs).val.lists

----------------------------------------------------------------------------
(* Failures of the resolution *)

\* some fragment the configuration names cannot be read or deserialized
Broken ==
    \E ref \in AllRefs :
        LET t == read_to_string(fs, from_env(env).val, ref) IN
        ~t.ok \/ ~from_str_UnresolvedItems(t.val).ok

\* the display names of the configuration that are not valid markup
BadNames == {n \in AllNames : ~parse_markup(n).ok}

\* C19: resolution is all-or-nothing: when a fragment anywhere in the tree
\* is missing, unreadable or unparsable, or a name is invalid markup, read
\* returns an error, no arena is built and init returns Err; an arena, when
\* there is one, is that of everything read returned.
C19_AllOrNothing ==
    [][(phase = "start" /\ phase' # "start")
          => LET config == read(env, fs) IN
             /\ (RootParsed /\ (Broken \/ BadNames # {}))
                   => /\ phase' \in {"failed", "overflow"}
                      /\ ~config.ok
                      /\ lists' = <<>>
             /\ phase' = "failed"
                   => (~config.ok /\ lists' = <<>> /\ error' # <<>>)
             /\ phase' = "ready"
                   => /\ config.ok
                      /\ lists' = register_items(config.val.root, <<>>, None).lists]_vars

\* C19 happens: init failed on a fragment after the direct items of the
\* root, all of them valid, had been resolved.
C19_Witness ==
    /\ phase = "failed" /\ lists = <<>>
    /\ RootParsed /\ BaseRoot.direct # <<>> /\ BadNames = {} /\ Broken

\* the layer around the innermost one of the error init failed with
Context == error[Len(error) - 1]

\* C20 as stated: when some display name, direct or included, at any depth,
\* is invalid markup, resolution aborts with an error whose context
\* contains the raw name of an invalid item.
C20_BadNameInError ==
    (phase \in {"ready", "failed"} /\ RootParsed /\ BadNames # {}) =>
        /\ phase = "failed"
        /\ \E n \in BadNames : Names(n)

\* C20 amended: an invalid display name anywhere aborts the resolution and
\* is never kept with its markup stripped; the error is the markup error
\* with the item's raw name in its context unless another step of the
\* resolution fails first, whose error is then the one reported.
C20_BadNameAborts ==
    (phase # "start" /\ RootParsed) =>
        /\ BadNames # {} => (phase \in {"failed", "overflow"} /\ lists = <<>>)
        /\ (phase = "failed" /\ RootCause.msg = "pango: markup error")
              => /\ Context.msg = "item name contains invalid markup"
                 /\ Context.arg \in BadNames
        /\ (phase = "failed" /\ BadNames # {} /\ ~Broken)
              => RootCause.msg = "pango: markup error"
        /\ phase = "ready"
              => \A o \in Slots(lists) :
                    LET it == ItemAt(lists, o.list, o.index) IN
                    /\ parse_markup(it.name_markup).ok
                    /\ it.name = parse_markup(it.name_markup).name

\* C20 happens: init failed on the invalid name of an item of an included
\* fragment, and the error carries that name.
C20_Witness ==
    /\ phase = "failed" /\ RootParsed
    /\ BaseRoot = [extends |-> <<kRef>>, direct |-> <<>>]
    /\ RootCause.msg = "pango: markup error"
    /\ Context = Layer("item name contains invalid markup", nBad)

----------------------------------------------------------------------------
(* The shape of the arena *)

\* C21: every Content::List(c) stored in list p of the arena has c below the
\* number of lists and above p.
C21_ChildIndexValidAndLater ==
    [][(phase = "start" /\ phase' = "ready")
          => \A o \in Slots(lists') :
                LET content == ItemAt(lists', o.list, o.index).content IN
                content.tag = "List"
                    => (content.list < Len(lists') /\ content.list > o.list)]_vars

\* C21 happens: an arena where a list other than the root holds a submenu
\* row that is not the last list.
C21_Witness ==
    /\ phase = "ready"
    /\ \E o \in Slots(lists) :
          /\ o.list # 0
          /\ ItemAt(lists, o.list, o.index).content.tag = "List"
          /\ ItemAt(lists, o.list, o.index).content.list < Len(lists) - 1

\* the lists the Content::List rows of the lists in S lead to
Children(ls, S) ==
    {ItemAt(ls, o.list, o.index).content.list :
        o \in {x \in Slots(ls) : /\ x.list \in S
                                 /\ ItemAt(ls, x.list, x.index).content.tag = "List"}}

RECURSIVE Reachable(_, _, _)
\* the lists reached from those of S in at most fuel Ok events on submenu rows
Reachable(ls, S, fuel) ==
    IF fuel = 0 THEN S
    ELSE Reachable(ls, S \cup (Children(ls, S) \cap (0..(Len(ls) - 1))), fuel - 1)

\* C22: every list of the arena is reached from list 0 by following
\* Content::List rows, that is by Ok events from the initial state.
C22_AllListsReachable ==
    [][(phase = "start" /\ phase' = "ready")
          => Reachable(lists', {0}, Len(lists')) = 0..(Len(lists') - 1)]_vars

\* C22 happens: the last list of an arena of at least four lists is the
\* active one, three Ok events away from the root.
C22_Witness ==
    /\ phase = "ready" /\ Len(lists) >= 4
    /\ active_list = Len(lists) - 1
    /\ event.kind = "Ok"
    /\ StepsToRoot(lists, active_list, Len(lists)) = 3

----------------------------------------------------------------------------
(* Cyclic includes *)

RECURSIVE RefsIn(_)
\* the references of the extends keys of one document: those of the node
\* and those of the submenus nested in it
RefsIn(node) ==
    {node.extends[k] : k \in 1..Len(node.extends)} \cup
    UNION {RefsIn(node.direct[k].content.items) :
              k \in {j \in 1..Len(node.direct) :
                        node.direct[j].content.tag = "Items"}}

\* the references the fragment ref names, none when it cannot be read or
\* deserialized
Includes(ref) ==
    LET t == read_to_string(fs, from_env(env).val, ref) IN
    IF t.ok /\ from_str_UnresolvedItems(t.val).ok
    THEN RefsIn(from_str_UnresolvedItems(t.val).val)
    ELSE {}

RECURSIVE IncludedBy(_, _)
\* the references reached from those of S through at most fuel includes
IncludedBy(S, fuel) ==
    IF fuel = 0 THEN S
    ELSE IncludedBy(S \cup UNION {Includes(r) : r \in S}, fuel - 1)

\* the fragments of the configuration that transitively extend themselves
CyclicRefs ==
    {r \in AllRefs : r \in IncludedBy(Includes(r), Cardinality(AllRefs))}

\* C23: nothing guards against cyclic extends: when a fragment of the
\* configuration transitively extends itself and every file can be read and
\* parsed and every name is valid markup, resolve recurses until the stack
\* is gone and init returns neither an arena nor an error; and that happens
\* for cyclic configurations only.
C23_CycleNeverReturns ==
    [][(phase = "start" /\ phase' # "start" /\ RootParsed)
          => /\ (CyclicRefs # {} /\ ~Broken /\ BadNames = {})
                   => (phase' = "overflow" /\ lists' = <<>> /\ error' = <<>>)
             /\ phase' = "overflow" => CyclicRefs # {}]_vars

\* C23 happens: config.ron has a valid item and includes c.ron, which
\* includes itself, and the resolution did not return.
C23_Witness ==
    /\ phase = "overflow" /\ lists = <<>> /\ error = <<>>
    /\ BaseRoot.direct # <<>> /\ BaseRoot.extends = <<cRef>>
    /\ cRef \in Includes(cRef)

----------------------------------------------------------------------------
(* Clipboard calls *)

\* C24: a react(Ok) on a leaf row calls clipboard_copy exactly once, with
\* the row's payload text, whether the copy works or not; no other step
\* calls it, so a failed copy is tried again only by a further Ok event.
C24_OneCopyPerOk ==
    [][/\ event'.kind = "Ok"
             => clipboard' = IF SelectedContent.tag = "Text"
                             THEN Append(clipboard, SelectedContent.text)
                             ELSE clipboard
       /\ event'.kind # "Ok" => clipboard' = clipboard]_vars

\* C24 happens: one copy was tried and failed; the one call made was given
\* the payload of the row, which is not its name.
C24_Witness ==
    /\ phase = "ready" /\ event.kind = "Ok" /\ copy_result = "spawn_failed"
    /\ action = "Reload"
    /\ clipboard = <<item(lists, active_list, event.selected.val).content.text>>
    /\ clipboard # <<item(lists, active_list, event.selected.val).name>>

----------------------------------------------------------------------------
(* What a resolution error says *)

RECURSIVE OwnNames(_)
\* the display names written in one document: those of the node and those
\* of the submenus nested in it
OwnNames(node) ==
    {node.direct[k].name : k \in 1..Len(node.direct)} \cup
    UNION {OwnNames(node.direct[k].content.items) :
              k \in {j \in 1..Len(node.direct) :
                        node.direct[j].content.tag = "Items"}}

\* the display names written in the fragment ref
NamesIn(ref) ==
    LET t == read_to_string(fs, from_env(env).val, ref) IN
    IF t.ok /\ from_str_UnresolvedItems(t.val).ok
    THEN OwnNames(from_str_UnresolvedItems(t.val).val)
    ELSE {}

\* the references of the configuration the error carries
NamedRefs == {r \in AllRefs : Names(r)}

RECURSIVE NamedChain(_, _)
\* the fragments reached from config.ron through references the error
\* carries, every link of the chain among them
NamedChain(S, fuel) ==
    IF fuel = 0 THEN S
    ELSE NamedChain(S \cup (UNION {Includes(r) : r \in S} \cap NamedRefs), fuel - 1)

\* the fragments config.ron reaches by named references only
NamedFromRoot == NamedChain(RefsIn(BaseRoot) \cap NamedRefs, Cardinality(AllRefs))

\* the error is about the markup of a name
MarkupFailure == RootCause.msg = "pango: markup error"

\* C25 as stated: an error of the resolution identifies the chain of
\* fragment references that leads to the failing fragment, and for a markup
\* failure also the item name: the fragment that could not be read or
\* parsed, or that holds the invalid name, is reached from config.ron by
\* references the error carries.
C25_ErrorNamesChain ==
    (phase = "failed" /\ RootParsed) =>
        IF MarkupFailure
        THEN /\ Names(Context.arg)
             /\ \/ Context.arg \in OwnNames(BaseRoot)
                \/ \E r \in NamedFromRoot : Context.arg \in NamesIn(r)
        ELSE Context.arg \in NamedFromRoot \/ RootCause.arg \in NamedFromRoot

\* C25 amended: an error of the resolution carries the context of the
\* failing step only: the reference that could not be read or parsed, or,
\* for a markup failure, the raw item name and no reference; the fragments
\* that lead to the failing one are not identified.
C25_ErrorNamesFailingStepOnly ==
    (phase = "failed" /\ RootParsed) =>
        /\ Len(error) \in {2, 3}
        /\ error[1] = Layer("failed to read configuration", <<>>)
        /\ IF MarkupFailure
           THEN /\ Context = Layer("item name contains invalid markup", Context.arg)
                /\ Context.arg \in BadNames
                /\ NamedRefs = {}
           ELSE /\ NamedRefs = {error[2].arg}
                /\ error[2].msg \in {"could not resolve path",
                                     "failed to read file",
                                     "failed to deserialize included file"}

\* C25 happens: f.ron could not be read while g.ron, which config.ron
\* includes first, was being resolved; the error carries f.ron and not g.ron.
C25_Witness ==
    /\ phase = "failed" /\ RootParsed
    /\ BaseRoot.extends = <<gRef, fRef>>
    /\ fRef \in Includes(gRef)
    /\ RootCause.msg = "io: PermissionDenied"
    /\ Names(fRef) /\ ~Names(gRef)

----------------------------------------------------------------------------
(* The order of the two steps on a direct item *)

\* the first key of config.ron is an item whose name is not valid markup
FirstNameInvalid ==
    /\ RootParsed
    /\ BaseRoot.direct # <<>>
    /\ ~parse_markup(BaseRoot.direct[1].name).ok

\* what resolving the nested content of the first item of config.ron gives
FirstContent ==
    IF BaseRoot.direct[1].content.tag = "Text"
    THEN Ok(Text(BaseRoot.direct[1].content.text))
    ELSE resolve(fs, BaseRoot.direct[1].content.items, <<>>, from_env(env).val, 1)

\* C26 as stated: the name of a direct item is parsed before its nested
\* content is resolved, so an item with an invalid name aborts with the
\* markup error for that item even when its submenu fails too.
C26_MarkupBeforeContent ==
    (phase # "start" /\ FirstNameInvalid) =>
        /\ phase = "failed"
        /\ MarkupFailure
        /\ Context = Layer("item name contains invalid markup",
                           BaseRoot.direct[1].name)

\* C26 amended: the nested content of a direct item is resolved before its
\* name is parsed: an item with an invalid name whose submenu fails aborts
\* with the error of the submenu, whose fragments have been read; the
\* markup error is reported only when the content resolves.
C26_ContentBeforeMarkup ==
    [][(phase = "start" /\ phase' # "start" /\ FirstNameInvalid)
          => IF FirstContent.ok
             THEN /\ phase' = "failed"
                  /\ error' = <<Layer("failed to read configuration", <<>>),
                                Layer("item name contains invalid markup",
                                      BaseRoot.direct[1].name),
                                Layer("pango: markup error", <<>>)>>
             ELSE IF Overflowed(FirstContent) THEN phase' = "overflow"
             ELSE /\ phase' = "failed"
                  /\ error' = <<Layer("failed to read configuration", <<>>)>>
                                  \o FirstContent.err]_vars

\* C26 happens: the first item of config.ron has an invalid name and a
\* submenu that includes a missing fragment; init failed with the error of
\* the fragment.
C26_Witness ==
    /\ phase = "failed" /\ FirstNameInvalid
    /\ BaseRoot.direct[1].content.tag = "Items"
    /\ BaseRoot.direct[1].content.items.extends = <<mRef>>
    /\ error = <<Layer("failed to read configuration", <<>>),
                 Layer("could not resolve path", mRef)>>

----------------------------------------------------------------------------
(* Where the extends key stands among the keys *)

\* the map written as root in config.ron, its keys in source order
RawRoot == fs[ConfigRonIn(1)].text.doc.fields[1].val.map

\* the display-name entries of a written map, in source order
RawDirect(map) == SelectSeq(map, LAMBDA e : e.key # kExtends)
\* the references of all the extends entries of a written map, in source order
RawRefs(map) ==
    Concat([k \in 1..Len(map) |->
               IF map[k].key = kExtends THEN map[k].val.seq ELSE <<>>])

RECURSIVE RawTree(_)
\* the names and contents a written map stands for: its display-name
\* entries, then what each fragment it references stands for
RawTree(map) ==
    LET direct == RawDirect(map)
        refs == RawRefs(map)
    IN  [k \in 1..Len(direct) |->
            [markup |-> direct[k].key,
             content |-> IF direct[k].val.tag = "Str"
                         THEN Text(direct[k].val.str)
                         ELSE Items(RawTree(direct[k].val.map))]]
        \o Concat([k \in 1..Len(refs) |->
                      RawTree(read_to_string(fs, from_env(env).val,
                                             refs[k]).val.doc.map)])

RECURSIVE Shape(_)
\* the raw names and the contents of a resolved tree
Shape(items) ==
    [k \in 1..Len(items) |->
        [markup |-> items[k].name_markup,
         content |-> IF items[k].content.tag = "Text"
                     THEN items[k].content
                     ELSE Items(Shape(items[k].content.items))]]

\* C27: wherever the extends keys of a map stand among its keys, and however
\* many there are, the items of the map come first, in source order, and
\* the items of the fragments after them, in the order the references are
\* listed; so for the root and for every submenu and fragment.
C27_IncludesAfterDirect ==
    [][(phase = "start" /\ phase' = "ready")
          => Shape(read(env, fs).val.root) = RawTree(RawRoot)]_vars

\* C27 happens: config.ron has its extends key before a display-name key,
\* and the first row of the root list is the one of the display-name key.
C27_Witness ==
    /\ phase = "ready" /\ Len(RawRoot) = 2
    /\ RawRoot[1].key = kExtends /\ RawRoot[2].key # kExtends
    /\ RawRoot[1].val.seq # <<>>
    /\ ItemAt(lists, 0, 0).name_markup = RawRoot[2].key
    /\ Len(ListAt(lists, 0).items) > 1

----------------------------------------------------------------------------
(* The arena while it is built *)

\* the arena after each push of the construction try_init runs
Pushes == pushes_of_register_items(read(env, fs).val.root, <<>>, None)

\* the list the push that left the arena as S has added
Pushed(S) == S[Len(S)]

\* C28 as stated: when a list is pushed with back-reference Some((p, s)),
\* list p is in the arena and slot s of list p exists at that moment.
C28_BackReferenceSlotExists ==
    phase = "ready" =>
        \A n \in 1..Len(Pushes) :
            LET S == Pushes[n] IN
            Pushed(S).index.tag = "Some"
                => LET p == Pushed(S).index.val.list
                       s == Pushed(S).index.val.index
                   IN  /\ p < Len(S) - 1
                       /\ s < Len(ListAt(S, p).items)

\* C28 amended: when a list is pushed with back-reference Some((p, s)),
\* list p is in the arena but has no items yet, so slot s does not exist at
\* that moment; it exists, and holds Content::List of the pushed list, once
\* the construction is finished.
C28_BackReferenceSlotComesLater ==
    [][(phase = "start" /\ phase' = "ready")
          => /\ Len(Pushes) = Len(lists')
             /\ \A n \in 1..Len(Pushes) :
                   LET S == Pushes[n] IN
                   /\ Len(S) = n
                   /\ Pushed(S).index = ListAt(lists', n - 1).index
                   /\ Pushed(S).index.tag = "Some"
                         => LET p == Pushed(S).index.val.list
                                s == Pushed(S).index.val.index
                            IN  /\ p < Len(S) - 1
                                /\ ListAt(S, p).items = <<>>
                                /\ s < Len(ListAt(lists', p).items)
                                /\ ItemAt(lists', p, s).content = List(n - 1)]_vars

\* C28 happens: an arena in which a list below the root was pushed for a
\* row other than the first of a list other than the root.
C28_Witness ==
    /\ phase = "ready"
    /\ \E l \in 1..(Len(lists) - 1) :
          /\ ListAt(lists, l).index.val.list # 0
          /\ ListAt(lists, l).index.val.index # 0

----------------------------------------------------------------------------
(* The arena and the resolved tree *)

RECURSIVE PreOrder(_)
\* the item lists of a resolved tree in pre-order: the items themselves,
\* then the lists of each of their submenus in turn
PreOrder(items) ==
    <<items>> \o Concat([k \in 1..Len(items) |->
                            IF items[k].content.tag = "Items"
                            THEN PreOrder(items[k].content.items)
                            ELSE <<>>])

RECURSIVE ListsBefore(_, _)
\* the number of lists the submenus among the first i items account for
ListsBefore(items, i) ==
    IF i = 0 THEN 0
    ELSE ListsBefore(items, i - 1) +
         (IF items[i].content.tag = "Items"
          THEN Len(PreOrder(items[i].content.items)) ELSE 0)

\* C29: the arena is the resolved tree laid out in pre-order: list k holds
\* the items of the k-th submenu with the same names, attributes, markup
\* and payloads; a submenu item becomes List(c) with c the pre-order index
\* of its submenu, and list c refers back to (k, slot of the item).
C29_ArenaIsResolvedTree ==
    [][(phase = "start" /\ phase' = "ready")
          => LET pre == PreOrder(read(env, fs).val.root) IN
             /\ Len(lists') = Len(pre)
             /\ ListAt(lists', 0).index = None
             /\ \A q \in 0..(Len(pre) - 1) :
                   LET src == pre[q + 1]
                       built == ListAt(lists', q).items
                   IN  /\ Len(built) = Len(src)
                       /\ \A i \in 1..Len(src) :
                             /\ built[i].name = src[i].name
                             /\ built[i].name_attributes = src[i].name_attributes
                             /\ built[i].name_markup = src[i].name_markup
                             /\ IF src[i].content.tag = "Text"
                                THEN built[i].content = Text(src[i].content.text)
                                ELSE LET c == q + 1 + ListsBefore(src, i - 1) IN
                                     /\ built[i].content = List(c)
                                     /\ pre[c + 1] = src[i].content.items
                                     /\ ListAt(lists', c).index =
                                            Some(ItemIndex(q, i - 1))]_vars

\* C29 happens: an arena of several lists in which a list other than the
\* root has a leaf row and a submenu row whose name carries attributes.
C29_Witness ==
    /\ phase = "ready" /\ Len(lists) >= 3
    /\ \E o, t \in Slots(lists) :
          /\ o.list # 0 /\ t.list = o.list
          /\ ItemAt(lists, o.list, o.index).content.tag = "List"
          /\ ItemAt(lists, o.list, o.index).name_attributes # <<>>
          /\ ItemAt(lists, t.list, t.index).content.tag = "Text"

\* C30: react on CustomInput, Complete without a selected row, DeleteEntry
\* and CustomCommand returns Reload, leaves active_list and the input as
\* they are and does not call the clipboard.
C30_IgnoredEventsChangeNothing ==
    [][(\/ event'.kind \in {"CustomInput", "DeleteEntry", "CustomCommand"}
        \/ (event'.kind = "Complete" /\ event'.selected.tag = "None"))
          => /\ action' = "Reload"
             /\ active_list' = active_list
             /\ input' = input
             /\ clipboard' = clipboard
             /\ phase' = "ready"]_vars

\* C30 happens: in a submenu, with text in the search box, a Complete
\* without a selected row came in and the menu reloaded as it was.
C30_Witness ==
    /\ phase = "ready" /\ active_list # 0 /\ input # <<>>
    /\ event = [kind |-> "Complete", selected |-> None]
    /\ action = "Reload"

----------------------------------------------------------------------------
(* Failures other than NotFound in the search path *)

\* the bases under which the relative reference ref exists, readable or not
BasesHolding(ref) ==
    {k \in 1..Len(from_env(env).val.bases) :
        join(from_env(env).val.bases[k], ref) \in DOMAIN fs}

\* the first base that holds ref holds it unreadable
DeniedFirst(ref) ==
    /\ ~is_absolute(ref)
    /\ BasesHolding(ref) # {}
    /\ fs[join(from_env(env).val.bases[Min(BasesHolding(ref))], ref)].kind = "Denied"

\* a later base than the first one that holds ref holds a readable copy
ReadableLater(ref) ==
    \E k \in BasesHolding(ref) :
        /\ k > Min(BasesHolding(ref))
        /\ fs[join(from_env(env).val.bases[k], ref)].kind = "File"

\* C31: in the search-path lookup only NotFound moves on to the next base:
\* a reference whose first holding base denies the read fails at once with
\* the I/O error under "failed to read file", whether or not a later base
\* has a readable copy, "could not resolve path" is reported only when no
\* base holds the reference, and a configuration that reaches such a
\* reference builds no arena.
C31_OnlyNotFoundMovesOn ==
    [][(phase = "start" /\ from_env(env).ok)
          => /\ \A ref \in RelativeRefs :
                   LET r == read_to_string(fs, from_env(env).val, ref) IN
                   /\ DeniedFirst(ref)
                         => /\ ~r.ok
                            /\ r.err = <<Layer("failed to read file", ref),
                                         Layer("io: PermissionDenied", <<>>)>>
                   /\ (~r.ok /\ r.err[1].msg = "could not resolve path")
                         => BasesHolding(ref) = {}
             /\ (RootParsed /\ \E ref \in AllRefs : DeniedFirst(ref))
                   => (phase' \in {"failed", "overflow"} /\ lists' = <<>>)]_vars

\* C31 happens: f.ron is unreadable in the user base and readable in a
\* system-wide base, and init failed on the permission error for f.ron.
C31_Witness ==
    /\ phase = "failed" /\ lists = <<>>
    /\ RootCause = Layer("io: PermissionDenied", <<>>)
    /\ error[Len(error) - 1] = Layer("failed to read file", fRef)
    /\ DeniedFirst(fRef) /\ ReadableLater(fRef)
    /\ BaseRoot = [extends |-> <<fRef>>, direct |-> <<>>]

----------------------------------------------------------------------------
(* Navigation as a walk of the tree *)

\* list c is entered through a submenu row of list p
ChildOf(ls, c, p) ==
    \E i \in 0..(entries(ls, p) - 1) : item(ls, p, i).content = List(c)

\* C32: through any sequence of react events on rows below the entry count
\* active_list is a valid index into the arena, and a single event leaves
\* it unchanged, moves it to a child of the previous active list (Ok on a
\* submenu row) or moves it to the parent of the previous active list
\* (Cancel); there is no other transition.
C32_TreeWalk ==
    [][/\ phase' \in {"ready", "exited"}
             => active_list' \in 0..(Len(lists') - 1)
       /\ phase = "ready"
             => \/ active_list' = active_list
                \/ /\ event'.kind = "Ok"
                   /\ SelectedContent.tag = "List"
                   /\ active_list' # active_list
                   /\ ChildOf(lists, active_list', active_list)
                \/ /\ event'.kind = "Cancel"
                   /\ ActiveIndex.tag = "Some"
                   /\ active_list' = ActiveIndex.val.list
                   /\ ChildOf(lists, active_list, active_list')]_vars

\* C32 happens: Cancel has moved from a list three levels down to its
\* parent, which Ok events on submenu rows had reached from the root.
C32_Witness ==
    /\ phase = "ready" /\ event.kind = "Cancel" /\ action = "Reload"
    /\ Depth(lists, active_list) = 2
    /\ \E c \in 0..(Len(lists) - 1) : ChildOf(lists, c, active_list)

----------------------------------------------------------------------------
(* Back-references against child references *)

\* the slots of the arena that hold a submenu row
SubmenuSlots(ls) ==
    {o \in Slots(ls) : ItemAt(ls, o.list, o.index).content.tag = "List"}

\* C33: in the arena init builds, list c has back-reference Some((p, s))
\* exactly when slot s of list p holds List(c); so every back-reference
\* names an existing slot, and there is one list more than there are
\* submenu rows in the whole arena.
C33_BackAndChildReferencesAgree ==
    [][(phase = "start" /\ phase' = "ready")
          => /\ \A c \in 0..(Len(lists') - 1) : \A o \in Slots(lists') :
                   (ListAt(lists', c).index = Some(o))
                       <=> (ItemAt(lists', o.list, o.index).content = List(c))
             /\ \A c \in 0..(Len(lists') - 1) :
                   ListAt(lists', c).index.tag = "Some"
                       => ListAt(lists', c).index.val \in Slots(lists')
             /\ Len(lists') = 1 + Cardinality(SubmenuSlots(lists'))]_vars

\* C33 happens: the arena has a list entered through a row that is not the
\* first of its list, in a list other than the root, and a root with
\* submenu rows of its own.
C33_Witness ==
    /\ phase = "ready" /\ Len(lists) >= 3
    /\ \E c \in 1..(Len(lists) - 1) :
          LET back == ListAt(lists, c).index.val IN
          /\ back.list # 0 /\ back.index >= 1
          /\ ItemAt(lists, back.list, back.index).content = List(c)

----------------------------------------------------------------------------
(* Entering a submenu and leaving it again *)

\* the last callback was react(Ok) on a submenu row: react(Ok) on a leaf
\* row records what the copy did
JustEntered ==
    /\ phase = "ready"
    /\ event.kind = "Ok" /\ action = "Reload" /\ copy_result = "none"

\* C34: react(Ok) on a submenu row followed at once by react(Cancel) leaves
\* active_list where it was. The Ok step from list L ends in a list whose
\* back-reference names L, and the Cancel step that follows an Ok step on a
\* submenu row returns Reload and ends in the list that back-reference
\* names.
C34_EnterThenCancel ==
    [][/\ (phase = "ready" /\ event'.kind = "Ok" /\ SelectedContent.tag = "List")
             => /\ ListAt(lists', active_list').index.tag = "Some"
                /\ ListAt(lists', active_list').index.val.list = active_list
                /\ ListAt(lists', active_list').index.val.index = event'.selected.val
       /\ (JustEntered /\ event'.kind = "Cancel")
             => /\ action' = "Reload"
                /\ active_list' = ActiveIndex.val.list
                /\ item(lists', active_list', ActiveIndex.val.index).content
                       = List(active_list)]_vars

\* C34 happens: Cancel has led back from a submenu to a list that has two
\* submenu rows or more.
C34_Witness ==
    /\ phase = "ready" /\ event.kind = "Cancel" /\ action = "Reload"
    /\ \E c, d \in 1..(Len(lists) - 1) :
          /\ c # d
          /\ ChildOf(lists, c, active_list) /\ ChildOf(lists, d, active_list)

----------------------------------------------------------------------------
(* Repeated Cancel *)

\* the user keeps pressing Escape for as long as the menu is open: a Cancel
\* that can be delivered is delivered
CancelSpec == Init /\ [][Next]_vars /\ WF_vars(ReactCancel)

\* the menu is open and waits for an event
Open == phase = "ready"

\* C35: repeated Cancel leads out. A Cancel in a list of depth d >= 1
\* returns Reload and ends one level up, a Cancel in the root returns Exit,
\* and in a run in which from some point on every event is a Cancel the
\* menu does not stay open: Cancel never loops.
C35_CancelLeadsOut ==
    /\ [][(phase = "ready" /\ event'.kind = "Cancel")
             => IF Depth(lists, active_list) = 0
                THEN action' = "Exit" /\ phase' = "exited"
                ELSE /\ action' = "Reload" /\ phase' = "ready"
                     /\ Depth(lists', active_list')
                            = Depth(lists, active_list) - 1]_vars
    /\ (<>[][event'.kind = "Cancel"]_vars) => []<>(~Open)

\* C35 happens: a Cancel has led from a list two or more levels down to a
\* list one level down, from where two more lead out.
C35_Witness ==
    /\ phase = "ready" /\ event.kind = "Cancel" /\ action = "Reload"
    /\ Depth(lists, active_list) = 1
    /\ Len(lists) >= 3

----------------------------------------------------------------------------
(* Who calls the clipboard *)

\* Mode::matches; the matcher is the set of names it accepts
matches(ls, a, line, matcher) == item(ls, a, line).name \in matcher

\* C36: clipboard_copy is called only by react(Ok) on a leaf row, once and
\* with the row's text. Cancel, Complete, the ignored events, Ok on a
\* submenu row, init and the typing between two callbacks leave the log of
\* clipboard calls as it is; entries, entry_content, completed, matches and
\* message read the arena and the active list and nothing else.
C36_OnlyOkOnLeafCopies ==
    [][/\ clipboard' # clipboard
             => /\ phase = "ready"
                /\ event'.kind = "Ok"
                /\ SelectedContent.tag = "Text"
                /\ clipboard' = Append(clipboard, SelectedContent.text)
       /\ (\/ event'.kind \in {"Cancel", "Complete", "CustomInput",
                               "DeleteEntry", "CustomCommand", "None"}
           \/ (event'.kind = "Ok" /\ SelectedContent.tag = "List"))
             => clipboard' = clipboard]_vars

\* C36 happens: a copy on a leaf row has failed, and a Complete in a
\* submenu entered afterwards has left the one call in the log.
C36_Witness ==
    /\ phase = "ready" /\ Len(clipboard) = 1
    /\ event.kind = "Complete" /\ event.selected.tag = "Some"
    /\ active_list # 0
    /\ matches(lists, active_list, event.selected.val, {input})

----------------------------------------------------------------------------
(* The breadcrumb across a descent *)

\* the markup name of the row the event of this step selects
SelectedMarkup == item(lists, active_list, event'.selected.val).name_markup

\* C37 as stated: Ok on submenu row i turns the breadcrumb m into the
\* markup name of row i when m is empty and into m, " / " and that name
\* otherwise, and a Cancel right after brings m back.
C37_BreadcrumbGrowsWhenNotEmpty ==
    [][/\ (phase = "ready" /\ event'.kind = "Ok" /\ SelectedContent.tag = "List")
             => LET m == message(lists, active_list) IN
                /\ message(lists', active_list') =
                       IF m = <<>> THEN SelectedMarkup
                       ELSE m \o <<" / ">> \o SelectedMarkup
                /\ message(lists', ListAt(lists', active_list').index.val.list) = m
       /\ (JustEntered /\ event'.kind = "Cancel")
             => active_list' = ActiveIndex.val.list]_vars

\* C37: Ok on submenu row i of list L turns the breadcrumb m into the
\* markup name of row i when L is the root and into m, " / " and that name
\* when L is any other list, also when m is the empty string there; a
\* Cancel right after goes back to L, where the breadcrumb is m again.
C37_BreadcrumbGrowsBelowRoot ==
    [][/\ (phase = "ready" /\ event'.kind = "Ok" /\ SelectedContent.tag = "List")
             => LET m == message(lists, active_list) IN
                /\ message(lists', active_list') =
                       IF ActiveIndex.tag = "None" THEN SelectedMarkup
                       ELSE m \o <<" / ">> \o SelectedMarkup
                /\ ActiveIndex.tag = "None" => m = <<>>
                /\ message(lists', ListAt(lists', active_list').index.val.list) = m
       /\ (JustEntered /\ event'.kind = "Cancel")
             => active_list' = ActiveIndex.val.list]_vars

\* C37 happens: a submenu was entered from a list below the root whose
\* breadcrumb is the empty string, and the breadcrumb starts with " / ".
C37_Witness ==
    /\ JustEntered
    /\ Depth(lists, active_list) = 2
    /\ message(lists, ActiveIndex.val.list) = <<>>
    /\ message(lists, active_list) = <<" / ">> \o nBoldA

====
